---------------------------- MODULE Spec2Model ----------------------------
(***************************************************************************)
(* Model of the travel planner's budget estimator                          *)
(* (src/src/components/BudgetAnalystAgent.tsx) and of the component that   *)
(* runs it.                                                                *)
(*                                                                         *)
(* Conventions                                                             *)
(*  - A JavaScript string is a sequence of one-character strings, so that  *)
(*    toLowerCase, includes and parseInt are computed character by         *)
(*    character.                                                           *)
(*  - A JavaScript number is a record [nan, v]: NaN, or the integer v.     *)
(*    Every number the estimator stores is an integer or NaN; the one      *)
(*    fraction, variancePercentage, is kept as a quotient (see Divide).    *)
(*  - The destination multipliers 1.5, 1.3, 0.9, 0.6, 1.0 and the factors  *)
(*    1.2, 0.05, 0.15 ... are kept as integer numerators over 10 or 100;   *)
(*    Math.round(x) is floor(x + 1/2) on the exact value.  The IEEE-754    *)
(*    products of the source round to the same integers on the modelled    *)
(*    ranges (checked exhaustively against double arithmetic).             *)
(*  - new Date(text).getTime() is counted in hours, not milliseconds, so   *)
(*    that the values fit the model checker's integers; one day is         *)
(*    HoursPerDay of them.                                                  *)
(***************************************************************************)
EXTENDS Integers, Sequences, FiniteSets, TLC

VARIABLES
    \* BudgetAnalystAgent and the demo that mounts it
    tripData,          \* prop tripData of BudgetAnalystAgent
    showAnalyst,       \* BudgetAnalystDemo: is the agent mounted
    isAnalyzing,       \* useState(false)
    analysisStage,     \* useState('initializing')
    analysis,          \* useState<BudgetAnalysis | null>(null)
    currentStep,       \* useState('analyzing')
    analysisProgress,  \* useState(0), in tenths of a percent
    stageIndex,        \* loop variable i of performBudgetAnalysis; -1: not running
    delivered,         \* the analyses handed to onComplete, in order
    results,           \* history: what each generateBudgetAnalysis call returned, in order
    \* TravelBudgetAnalyst
    tripDetails,        \* prop tripDetails
    itinerary,          \* prop itinerary
    flightSelection,    \* prop flightSelection; Null: not supplied
    analystMounted,     \* is the component mounted
    analystIsAnalyzing, \* its isAnalyzing, useState(false)
    analystStage,       \* its analysisStage, useState('initializing')
    analystProgress,    \* its analysisProgress, useState(0), in ninths of a percent
    analystStageIndex,  \* loop variable i of its performBudgetAnalysis; -1: not running
    budgetAnalysis,     \* useState<BudgetAnalysis | null>(null)
    completed,          \* the analyses handed to onAnalysisComplete, in order
    \* FlightSearchAgent
    searchParams,      \* prop searchParams
    searchMounted,     \* is the component mounted
    isSearching,       \* useState(false)
    searchStage,       \* useState('initializing')
    searchProgress,    \* useState(0), in sixths of a percent
    searchStageIndex,  \* loop variable i of performFlightSearch; -1: not running
    searchResults,     \* useState<FlightSearchResult | null>(null)
    apiError,          \* useState<string | null>(null)
    unhandled,         \* did performFlightSearch's promise reject (nothing awaits it)
    searchPc,          \* where performFlightSearch stands
    searchLocal,       \* const apiResponse of searchFlights; Null: not assigned
    selectedOutbound,  \* useState<FlightOption | null>(null)
    selectedReturn,    \* useState<FlightOption | null>(null)
    clickedOutbound,   \* the outbound card clicked last; Null: none yet
    clickedReturn,     \* the return card clicked last; Null: none yet
    handedOver,        \* the selections handed to onFlightSelected, in order
    \* FlightSearchService over SkyscannerAPI (flightService.ts)
    apiKey,            \* SkyscannerAPI.apiKey: is a RapidAPI key configured
    serviceParams,     \* the argument of FlightSearchService.searchFlights
    servicePc,         \* where that call stands
    originCode,        \* its const originCode
    destinationCode,   \* its const destinationCode
    serviceResult,     \* what the call resolved with; Null: not resolved
    serviceRejected,   \* did the call reject
    requests,          \* the fetch requests the call has made so far, in order
    \* FlightApiService.searchFlights (flightApiService.ts)
    apiPc,             \* where the call stands
    apiIndex,          \* the place in apiProviders of the provider tried now
    apiAttempts,       \* the providers called so far and what each did, in order
    lastError,         \* let lastError: Error | null
    apiResult,         \* what the call returned or threw; Null: still running
    \* Index page (src/unnamed/part_003) and its TripPlannerForm
    planningMethod,    \* useState<'chat' | 'form'>('chat')
    currentStage,      \* useState<WorkflowStage>('input')
    pageTripData,      \* Index: tripData, useState<TripData | null>(null)
    pageItinerary,     \* Index: itinerary, useState<ItineraryPlan | null>(null)
    selectedFlights,   \* useState<any>(null)
    formId,            \* the TripPlannerForm mounted now is the formId-th; 0: none yet
    formMounted,       \* is a TripPlannerForm mounted
    formData,          \* TripPlannerForm: data
    submitted,         \* TripPlannerForm: useState(false)
    formToast,         \* the title of the last toast of the mounted form; Null: none
    formTimers,        \* the pending 2000 ms timers of handleSubmit, oldest first
    collected,         \* the calls of handleTripDataCollected, in order
    plannerStep,       \* ItineraryPlannerAgent: currentStep; "unmounted": not shown
    bookingShown,      \* what FlightBookingAgent shows under Index; "unmounted": not shown
    \* TravelConcierge (src/src/components/FlightBookingAgent.tsx, lines 505 on)
    messages,          \* useState<Message[]>([greeting])
    chatInput,         \* input, useState('')
    isLoading,         \* useState(false)
    chatStep,          \* currentStep, useState<CollectionStep>('source')
    chatTripData,      \* tripData, useState<TripData>({...})
    processing,        \* the processUserInput call waiting for its 1200 ms; Null: none
    replyTimers,       \* the pending 500 ms timers of the replies, oldest first
    inputsSent,        \* how many inputs handleSubmit has accepted
    chatCollected,     \* the trip data handed to onDataCollected, in order
    \* FlightBookingAgent
    bookingTrip,       \* prop tripData
    bookingMounted,    \* is the component mounted
    bookingSearching,  \* isSearching, useState(false)
    bookingResults,    \* searchResults, useState<FlightSearchResult | null>(null)
    bookingOutbound,   \* selectedOutbound, useState<FlightOption | null>(null)
    bookingReturn,     \* selectedReturn, useState<FlightOption | null>(null)
    bookingStep,       \* currentStep, useState('searching')
    bookingSelected    \* the selections handed to onFlightSelected, in order

agentVars == << tripData, showAnalyst, isAnalyzing, analysisStage, analysis,
                currentStep, analysisProgress, stageIndex, delivered, results >>

analystVars == << tripDetails, itinerary, flightSelection, analystMounted,
                  analystIsAnalyzing, analystStage, analystProgress,
                  analystStageIndex, budgetAnalysis, completed >>

searchVars == << searchParams, searchMounted, isSearching, searchStage,
                 searchProgress, searchStageIndex, searchResults, apiError,
                 unhandled, searchPc, searchLocal, selectedOutbound,
                 selectedReturn, clickedOutbound, clickedReturn, handedOver >>

serviceVars == << apiKey, serviceParams, servicePc, originCode, destinationCode,
                  serviceResult, serviceRejected, requests >>

\* FlightSearchAgent: the selection of flights
selectionVars == << selectedOutbound, selectedReturn, clickedOutbound,
                    clickedReturn, handedOver >>

apiVars == << apiPc, apiIndex, apiAttempts, lastError, apiResult >>

indexVars == << planningMethod, currentStage, pageTripData, pageItinerary,
                selectedFlights, formId, formMounted, formData, submitted,
                formToast, formTimers, collected, plannerStep, bookingShown >>

chatVars == << messages, chatInput, isLoading, chatStep, chatTripData,
               processing, replyTimers, inputsSent, chatCollected >>

bookingVars == << bookingTrip, bookingMounted, bookingSearching, bookingResults,
                  bookingOutbound, bookingReturn, bookingStep, bookingSelected >>

\* the components no page mounts, and the service of flightService.ts
standaloneVars == << agentVars, analystVars, searchVars, serviceVars >>

\* the Index page, the components it mounts, and the flight API service
pageVars == << apiVars, indexVars, chatVars, bookingVars >>

vars == << standaloneVars, pageVars >>


\* null and undefined
Null == [null |-> TRUE]

\* TravelBudgetAnalyst is not mounted
AnalystUnmounted ==
    /\ tripDetails = Null /\ itinerary = << >> /\ flightSelection = Null
    /\ analystMounted = FALSE
    /\ analystIsAnalyzing = FALSE
    /\ analystStage = "initializing"
    /\ analystProgress = 0
    /\ analystStageIndex = -1
    /\ budgetAnalysis = Null
    /\ completed = << >>

\* FlightSearchAgent is not mounted
SearchUnmounted ==
    /\ searchParams = Null
    /\ searchMounted = FALSE
    /\ isSearching = FALSE
    /\ searchStage = "initializing"
    /\ searchProgress = 0
    /\ searchStageIndex = -1
    /\ searchResults = Null
    /\ apiError = Null
    /\ unhandled = FALSE
    /\ searchPc = "idle"
    /\ searchLocal = Null
    /\ selectedOutbound = Null /\ selectedReturn = Null
    /\ clickedOutbound = Null /\ clickedReturn = Null
    /\ handedOver = << >>

\* FlightSearchService is not called
ServiceIdle ==
    /\ apiKey = FALSE
    /\ serviceParams = Null
    /\ servicePc = "idle"
    /\ originCode = Null /\ destinationCode = Null
    /\ serviceResult = Null
    /\ serviceRejected = FALSE
    /\ requests = << >>

\* BudgetAnalystDemo is not started
AgentUnmounted ==
    /\ tripData = Null
    /\ showAnalyst = FALSE
    /\ isAnalyzing = FALSE
    /\ analysisStage = "initializing"
    /\ analysis = Null
    /\ currentStep = "analyzing"
    /\ analysisProgress = 0
    /\ stageIndex = -1
    /\ delivered = << >>
    /\ results = << >>

\* FlightApiService.searchFlights is not called
ApiIdle ==
    /\ apiPc = "idle"
    /\ apiIndex = 0
    /\ apiAttempts = << >>
    /\ lastError = Null
    /\ apiResult = Null

\* the Index page is not loaded
IndexIdle ==
    /\ planningMethod = "chat"
    /\ currentStage = "unloaded"
    /\ pageTripData = Null /\ pageItinerary = Null /\ selectedFlights = Null
    /\ formId = 0
    /\ formMounted = FALSE
    /\ formData = Null
    /\ submitted = FALSE
    /\ formToast = Null
    /\ formTimers = << >>
    /\ collected = << >>
    /\ plannerStep = "unmounted"
    /\ bookingShown = "unmounted"

\* TravelConcierge is not mounted
ChatIdle ==
    /\ messages = << >>
    /\ chatInput = << >>
    /\ isLoading = FALSE
    /\ chatStep = "unmounted"
    /\ chatTripData = Null
    /\ processing = Null
    /\ replyTimers = << >>
    /\ inputsSent = 0
    /\ chatCollected = << >>

\* FlightBookingAgent is not mounted
BookingIdle ==
    /\ bookingTrip = Null
    /\ bookingMounted = FALSE
    /\ bookingSearching = FALSE
    /\ bookingResults = Null
    /\ bookingOutbound = Null /\ bookingReturn = Null
    /\ bookingStep = "searching"
    /\ bookingSelected = << >>

StandaloneIdle ==
    AgentUnmounted /\ AnalystUnmounted /\ SearchUnmounted /\ ServiceIdle

PageIdle == ApiIdle /\ IndexIdle /\ ChatIdle /\ BookingIdle

-----------------------------------------------------------------------------
(* Bounds of the model *)

\* longest trip of the input grid, in days (README: 1-30 day trips)
MaxDays == 30
\* largest traveller count of the input grid (README: 1-20 travelers)
MaxTravellers == 20
\* the log of onComplete calls is kept up to this length
MaxDelivered == 2
\* the agent is mounted, and so generateBudgetAnalysis called, up to this often
MaxCalls == 2
\* largest traveller count handed to TravelBudgetAnalyst
MaxParty == 3

-----------------------------------------------------------------------------
(* JavaScript numbers *)

NaN == [nan |-> TRUE, v |-> 0]

Num(n) == [nan |-> FALSE, v |-> n]

\* the operand of `x || dflt`: NaN and 0 are falsy
Truthy(x) == ~x.nan /\ x.v # 0

OrDefault(x, dflt) == IF Truthy(x) THEN x ELSE Num(dflt)

\* a + b
Plus(a, b) == IF a.nan \/ b.nan THEN NaN ELSE Num(a.v + b.v)

\* a - b
Minus(a, b) == IF a.nan \/ b.nan THEN NaN ELSE Num(a.v - b.v)

\* Math.round(n / d) for integers n and d > 0: floor(n/d + 1/2)
RoundDiv(n, d) == (2 * n + d) \div (2 * d)

\* Math.ceil(n / d) for integers n and d > 0
CeilDiv(n, d) == -((-n) \div d)

RECURSIVE ISqrtBetween(_, _, _)
\* the largest r in lo..hi with r * r <= s
ISqrtBetween(lo, hi, s) ==
    IF lo = hi THEN lo
    ELSE LET mid == (lo + hi + 1) \div 2
         IN  IF mid * mid <= s THEN ISqrtBetween(mid, hi, s)
                               ELSE ISqrtBetween(lo, mid - 1, s)

\* floor(sqrt(s)) for 0 <= s < 46340^2
ISqrt(s) == ISqrtBetween(0, 46340, s)

\* ceil(sqrt(s))
CeilSqrt(s) == LET r == ISqrt(s) IN IF r * r = s THEN r ELSE r + 1

\* Math.round(c * Math.sqrt(t) / 2) for integers c and t >= 0:
\* floor((c * sqrt(t) + 1) / 2)
RoundSqrtHalf(c, t) ==
    IF c >= 0 THEN (ISqrt(c * c * t) + 1) \div 2
              ELSE (1 - CeilSqrt(c * c * t)) \div 2

-----------------------------------------------------------------------------
(* JavaScript strings *)

UpperCase == << "A", "B", "C", "D", "E", "F", "G", "H", "I", "J", "K", "L", "M",
                "N", "O", "P", "Q", "R", "S", "T", "U", "V", "W", "X", "Y", "Z" >>

LowerCase == << "a", "b", "c", "d", "e", "f", "g", "h", "i", "j", "k", "l", "m",
                "n", "o", "p", "q", "r", "s", "t", "u", "v", "w", "x", "y", "z" >>

LowerChar(c) ==
    IF \E i \in 1..Len(UpperCase) : UpperCase[i] = c
    THEN LowerCase[CHOOSE i \in 1..Len(UpperCase) : UpperCase[i] = c]
    ELSE c

\* String.prototype.toLowerCase
ToLowerCase(s) == [i \in 1..Len(s) |-> LowerChar(s[i])]

\* String.prototype.includes
Includes(s, sub) ==
    \E i \in 0..(Len(s) - Len(sub)) : \A j \in 1..Len(sub) : s[i + j] = sub[j]

Digits == << "0", "1", "2", "3", "4", "5", "6", "7", "8", "9" >>

IsDigit(c) == \E i \in 1..10 : Digits[i] = c

DigitVal(c) == (CHOOSE i \in 1..10 : Digits[i] = c) - 1

RECURSIVE SkipWhiteSpace(_)
SkipWhiteSpace(s) ==
    IF s # << >> /\ Head(s) = " " THEN SkipWhiteSpace(Tail(s)) ELSE s

RECURSIVE DigitPrefix(_)
\* the longest prefix of s made of decimal digits
DigitPrefix(s) ==
    IF s # << >> /\ IsDigit(Head(s)) THEN << Head(s) >> \o DigitPrefix(Tail(s))
                                     ELSE << >>

RECURSIVE DigitsValue(_, _)
DigitsValue(ds, acc) ==
    IF ds = << >> THEN acc ELSE DigitsValue(Tail(ds), 10 * acc + DigitVal(Head(ds)))

\* parseInt(s) in radix 10: leading white space is skipped, one sign is
\* read, then the longest run of digits; NaN when there is no digit.
\* (No modelled input starts with "0x".)
ParseInt(s) ==
    LET t      == SkipWhiteSpace(s)
        signed == t # << >> /\ Head(t) \in {"-", "+"}
        body   == IF signed THEN Tail(t) ELSE t
        ds     == DigitPrefix(body)
        mag    == DigitsValue(ds, 0)
    IN  IF ds = << >> THEN NaN
        ELSE IF signed /\ Head(t) = "-" THEN Num(-mag) ELSE Num(mag)

RECURSIVE NumText(_)
\* the decimal text a number input holds for n >= 0
NumText(n) ==
    IF n < 10 THEN << Digits[n + 1] >>
              ELSE NumText(n \div 10) \o << Digits[(n % 10) + 1] >>

-----------------------------------------------------------------------------
(* Dates.  A date text is a record [kind, day, hour]:                        *)
(*   "date"     YYYY-MM-DD, what <input type="date"> holds (UTC midnight),   *)
(*   "datetime" a date with a time of day, which the chat accepts,           *)
(*   "text"     any text new Date() cannot parse.                            *)

\* 1000 * 60 * 60 * 24 ms, counted in hours
HoursPerDay == 24

DateText(day) == [kind |-> "date", day |-> day, hour |-> 0]

DateTimeText(day, hour) == [kind |-> "datetime", day |-> day, hour |-> hour]

UnparsableDate == [kind |-> "text", day |-> 0, hour |-> 0]

\* new Date(text).getTime(), in hours
GetTime(text) ==
    IF text.kind = "text" THEN NaN ELSE Num(text.day * HoursPerDay + text.hour)

\* Math.ceil((new Date(endDate).getTime() - new Date(startDate).getTime()) / day)
TotalDays(data) ==
    LET diff == Minus(GetTime(data.endDate), GetTime(data.startDate))
    IN  IF diff.nan THEN NaN ELSE Num(CeilDiv(diff.v, HoursPerDay))

-----------------------------------------------------------------------------
(* getDestinationMultiplier; the multiplier is returned in tenths *)

lowCost ==
    << <<"t", "h", "a", "i", "l", "a", "n", "d">>,
       <<"v", "i", "e", "t", "n", "a", "m">>,
       <<"i", "n", "d", "i", "a">>,
       <<"n", "e", "p", "a", "l">>,
       <<"c", "a", "m", "b", "o", "d", "i", "a">>,
       <<"l", "a", "o", "s">>,
       <<"g", "u", "a", "t", "e", "m", "a", "l", "a">>,
       <<"b", "o", "l", "i", "v", "i", "a">> >>

mediumCost ==
    << <<"s", "p", "a", "i", "n">>,
       <<"p", "o", "r", "t", "u", "g", "a", "l">>,
       <<"g", "r", "e", "e", "c", "e">>,
       <<"c", "z", "e", "c", "h", " ", "r", "e", "p", "u", "b", "l", "i", "c">>,
       <<"p", "o", "l", "a", "n", "d">>,
       <<"h", "u", "n", "g", "a", "r", "y">>,
       <<"m", "e", "x", "i", "c", "o">>,
       <<"t", "u", "r", "k", "e", "y">> >>

highCost ==
    << <<"j", "a", "p", "a", "n">>,
       <<"s", "w", "i", "t", "z", "e", "r", "l", "a", "n", "d">>,
       <<"n", "o", "r", "w", "a", "y">>,
       <<"d", "e", "n", "m", "a", "r", "k">>,
       <<"s", "i", "n", "g", "a", "p", "o", "r", "e">>,
       <<"a", "u", "s", "t", "r", "a", "l", "i", "a">>,
       <<"n", "e", "w", " ", "z", "e", "a", "l", "a", "n", "d">>,
       <<"u", "k">> >>

veryHighCost ==
    << <<"m", "o", "n", "a", "c", "o">>,
       <<"l", "u", "x", "e", "m", "b", "o", "u", "r", "g">>,
       <<"i", "c", "e", "l", "a", "n", "d">>,
       <<"l", "i", "e", "c", "h", "t", "e", "n", "s", "t", "e", "i", "n">> >>

\* list.some(country => dest.includes(country))
SomeIncluded(list, dest) == \E i \in 1..Len(list) : Includes(dest, list[i])

\* a faulty variant: the tiers are tried cheapest first
getDestinationMultiplierMutant(destination) ==
    LET dest == ToLowerCase(destination)
    IN  IF SomeIncluded(lowCost, dest) THEN 6
        ELSE IF SomeIncluded(mediumCost, dest) THEN 9
        ELSE IF SomeIncluded(highCost, dest) THEN 13
        ELSE IF SomeIncluded(veryHighCost, dest) THEN 15
        ELSE 10

getDestinationMultiplier(destination) ==
    LET dest == ToLowerCase(destination)
    IN  IF SomeIncluded(veryHighCost, dest) THEN 15
        ELSE IF SomeIncluded(highCost, dest) THEN 13
        ELSE IF SomeIncluded(mediumCost, dest) THEN 9
        ELSE IF SomeIncluded(lowCost, dest) THEN 6
        ELSE 10

-----------------------------------------------------------------------------
(* The six category amounts.  travelers is an integer, totalDays a number  *)
(* that may be NaN, m the destination multiplier in tenths.                *)

\* a faulty variant: 0.2 typed for 1.2
flightsAmountMutant(travelers, totalDays, m) ==
    LET factor == IF ~totalDays.nan /\ totalDays.v > 7 THEN 2 ELSE 10
    IN  Num(RoundDiv(600 * travelers * factor * m, 100))

\* Math.round((600 * travelers * (totalDays > 7 ? 1.2 : 1.0)) * destMultiplier)
flightsAmount(travelers, totalDays, m) ==
    LET factor == IF ~totalDays.nan /\ totalDays.v > 7 THEN 12 ELSE 10
    IN  Num(RoundDiv(600 * travelers * factor * m, 100))

\* a faulty variant: travelers where Math.sqrt(travelers) is meant
accommodationAmountMutant(travelers, totalDays, m) ==
    IF totalDays.nan THEN NaN ELSE Num(RoundDiv(85 * totalDays.v * travelers * m, 10))

\* Math.round((85 * totalDays * Math.sqrt(travelers)) * destMultiplier);
\* 85 * m / 10 = 17 * m / 2, and Math.sqrt of a negative number is NaN
accommodationAmount(travelers, totalDays, m) ==
    IF totalDays.nan \/ travelers < 0 THEN NaN
    ELSE Num(RoundSqrtHalf(17 * totalDays.v * m, travelers))

\* Math.round((45 * totalDays * travelers) * destMultiplier)
foodAmount(travelers, totalDays, m) ==
    IF totalDays.nan THEN NaN ELSE Num(RoundDiv(45 * totalDays.v * travelers * m, 10))

\* Math.round((35 * totalDays * travelers) * destMultiplier)
activitiesAmount(travelers, totalDays, m) ==
    IF totalDays.nan THEN NaN ELSE Num(RoundDiv(35 * totalDays.v * travelers * m, 10))

\* Math.round((25 * totalDays * Math.sqrt(travelers)) * destMultiplier);
\* 25 * m / 10 = 5 * m / 2
transportationAmount(travelers, totalDays, m) ==
    IF totalDays.nan \/ travelers < 0 THEN NaN
    ELSE Num(RoundSqrtHalf(5 * totalDays.v * m, travelers))

\* Math.round((20 * totalDays * travelers) * destMultiplier)
miscellaneousAmount(travelers, totalDays, m) ==
    IF totalDays.nan THEN NaN ELSE Num(RoundDiv(20 * totalDays.v * travelers * m, 10))

\* the keys of the breakdown object, in insertion order
Categories == << "flights", "accommodation", "food", "activities",
                 "transportation", "miscellaneous" >>

Breakdown(travelers, totalDays, m) ==
    [ flights        |-> [amount |-> flightsAmount(travelers, totalDays, m)],
      accommodation  |-> [amount |-> accommodationAmount(travelers, totalDays, m)],
      food           |-> [amount |-> foodAmount(travelers, totalDays, m)],
      activities     |-> [amount |-> activitiesAmount(travelers, totalDays, m)],
      transportation |-> [amount |-> transportationAmount(travelers, totalDays, m)],
      miscellaneous  |-> [amount |-> miscellaneousAmount(travelers, totalDays, m)] ]

RECURSIVE SumAmounts(_, _, _)
\* Object.values(breakdown).reduce((sum, category) => sum + category.amount, sum)
\* over the categories from index i on
SumAmounts(breakdown, i, sum) ==
    IF i > Len(Categories) THEN sum
    ELSE SumAmounts(breakdown, i + 1, Plus(sum, breakdown[Categories[i]].amount))

\* a faulty variant: the last category is left out of the total
TotalEstimatedMutant(breakdown) ==
    Plus(Plus(Plus(Plus(breakdown.flights.amount, breakdown.accommodation.amount),
                   breakdown.food.amount), breakdown.activities.amount),
         breakdown.transportation.amount)

TotalEstimated(breakdown) == SumAmounts(breakdown, 1, Num(0))

-----------------------------------------------------------------------------
(* Variance, status and the three rule lists *)

\* (a / b) * 100 with b a number that is not NaN: the quotient is kept as
\* numerator and denominator; a division by zero gives Infinity, -Infinity
\* or (0 / 0) NaN, as in IEEE arithmetic.
Divide(a, b) ==
    IF a.nan THEN [kind |-> "nan", num |-> 0, den |-> 1]
    ELSE IF b.v = 0
         THEN IF a.v = 0 THEN [kind |-> "nan", num |-> 0, den |-> 1]
              ELSE [kind |-> "infinite", num |-> IF a.v > 0 THEN 1 ELSE -1, den |-> 0]
         ELSE [kind |-> "finite", num |-> a.v * 100, den |-> b.v]

\* let budgetStatus = 'on-track';
\* if (variance < -originalBudget * 0.05) budgetStatus = 'under';
\* else if (variance > originalBudget * 0.05) budgetStatus = 'over';
\* (a comparison with NaN is false; x < b * 0.05 is 20 * x < b)
BudgetStatus(variance, originalBudget) ==
    IF ~variance.nan /\ 20 * variance.v < -originalBudget.v THEN "under"
    ELSE IF ~variance.nan /\ 20 * variance.v > originalBudget.v THEN "over"
    ELSE "on-track"

generateRecommendations(status, variance, data) ==
    ( IF status = "over"
      THEN << "Consider booking flights earlier or being flexible with travel dates to reduce costs",
              "Look into alternative accommodation options like hostels or vacation rentals",
              "Plan some free activities like hiking, beaches, or free museum days" >>
      ELSE IF status = "under"
      THEN << "You have room in your budget for some premium experiences or upgrades",
              "Consider extending your trip or adding day trips to nearby destinations",
              "Allocate extra budget for unique local experiences and cultural activities" >>
      ELSE << "Your budget looks well-balanced for this itinerary",
              "Keep a small emergency fund for unexpected opportunities" >> )
    \o << "Book accommodation and major activities in advance for better rates",
          "Consider travel insurance to protect your investment" >>

\* Math.round(amount * percent / 100)
RoundPercent(amount, percent) ==
    IF amount.nan THEN NaN ELSE Num(RoundDiv(amount.v * percent, 100))

generateCostSavingTips(breakdown, data) ==
    << [category |-> "Flights",
        potentialSavings |-> RoundPercent(breakdown.flights.amount, 15)],
       [category |-> "Accommodation",
        potentialSavings |-> RoundPercent(breakdown.accommodation.amount, 25)],
       [category |-> "Food",
        potentialSavings |-> RoundPercent(breakdown.food.amount, 30)],
       [category |-> "Transportation",
        potentialSavings |-> RoundPercent(breakdown.transportation.amount, 20)] >>

\* a faulty variant: the two unconditional entries are pushed first
generateRiskFactorsMutant(data, days, multiplier) ==
    << [factor |-> "Currency fluctuation", impact |-> "medium"],
       [factor |-> "Seasonal pricing", impact |-> "low"] >>
    \o ( IF multiplier > 12
         THEN << [factor |-> "High-cost destination", impact |-> "high"] >>
         ELSE << >> )
    \o ( IF ~days.nan /\ days.v > 14
         THEN << [factor |-> "Extended trip duration", impact |-> "medium"] >>
         ELSE << >> )

\* multiplier is in tenths: multiplier > 1.2 is multiplier > 12
generateRiskFactors(data, days, multiplier) ==
    ( IF multiplier > 12
      THEN << [factor |-> "High-cost destination", impact |-> "high"] >>
      ELSE << >> )
    \o ( IF ~days.nan /\ days.v > 14
         THEN << [factor |-> "Extended trip duration", impact |-> "medium"] >>
         ELSE << >> )
    \o << [factor |-> "Currency fluctuation", impact |-> "medium"],
          [factor |-> "Seasonal pricing", impact |-> "low"] >>

-----------------------------------------------------------------------------
(* generateBudgetAnalysis *)

\* parseInt(data.travellers) || 1
Travelers(data) == OrDefault(ParseInt(data.travellers), 1)

\* a faulty variant: only an unparsable text is replaced, a parsed 0 is kept
OriginalBudgetMutant(data) ==
    IF ParseInt(data.budget).nan THEN Num(2000) ELSE ParseInt(data.budget)

\* parseInt(data.budget) || 2000
OriginalBudget(data) == OrDefault(ParseInt(data.budget), 2000)

generateBudgetAnalysis(data) ==
    LET totalDays      == TotalDays(data)
        travelers      == Travelers(data)
        originalBudget == OriginalBudget(data)
        destMultiplier == getDestinationMultiplier(data.destination)
        breakdown      == Breakdown(travelers.v, totalDays, destMultiplier)
        totalEstimated == TotalEstimated(breakdown)
        variance       == Minus(totalEstimated, originalBudget)
        budgetStatus   == BudgetStatus(variance, originalBudget)
    IN  [ totalEstimated     |-> totalEstimated,
          originalBudget     |-> originalBudget,
          budgetStatus       |-> budgetStatus,
          variance           |-> variance,
          variancePercentage |-> Divide(variance, originalBudget),
          breakdown          |-> breakdown,
          recommendations    |-> generateRecommendations(budgetStatus, variance, data),
          costSavingTips     |-> generateCostSavingTips(breakdown, data),
          riskFactors        |-> generateRiskFactors(data, totalDays, destMultiplier) ]

-----------------------------------------------------------------------------
(* The trip data the collectors hand over.                                 *)
(*  - The form (TripPlannerForm) requires source, destination and both     *)
(*    dates; its date inputs hold YYYY-MM-DD texts in any order; its       *)
(*    budget input (min 0, step 50) holds the empty text or a multiple of  *)
(*    50; its travellers input (min 1, max 20) the empty text or 1..20.    *)
(*  - The chat (TravelConcierge) stores the trimmed, non-empty text the    *)
(*    user typed, whatever it is, in every field.                          *)

SourceNewYork == <<"N", "e", "w", " ", "Y", "o", "r", "k">>

DestThailand == <<"T", "h", "a", "i", "l", "a", "n", "d">>
DestGenericPlace == <<"G", "e", "n", "e", "r", "i", "c", " ", "P", "l", "a", "c", "e">>
DestTokyoJapan == <<"T", "o", "k", "y", "o", ",", " ", "J", "a", "p", "a", "n">>
DestMonaco == <<"M", "O", "N", "A", "C", "O">>
DestNewTurkeyCity == <<"N", "e", "w", " ", "T", "u", "r", "k", "e", "y", " ", "C", "i", "t", "y">>
DestJapanThailand == <<"J", "a", "p", "a", "n", " ", "a", "n", "d", " ", "T", "h", "a", "i", "l", "a", "n", "d">>
DestIcelandSpain == <<"S", "p", "a", "i", "n", " ", "v", "i", "a", " ", "I", "c", "e", "l", "a", "n", "d">>

StartDate == DateText(10)

\* form: one destination of every cost tier, every trip length and every
\* traveller count
GridInputs ==
    [ source      : {SourceNewYork},
      destination : {DestMonaco, DestTokyoJapan, DestNewTurkeyCity, DestThailand,
                     DestGenericPlace},
      startDate   : {StartDate},
      endDate     : {DateText(StartDate.day + d) : d \in 1..MaxDays},
      budget      : {NumText(1000)},
      travellers  : {NumText(n) : n \in 1..MaxTravellers},
      interests   : {<< >>} ]

\* form: fields left empty, a budget of 0, equal and reversed dates
FormEdgeInputs ==
    [ source      : {SourceNewYork},
      destination : {DestThailand, DestGenericPlace},
      startDate   : {StartDate},
      endDate     : {DateText(10), DateText(7), DateText(15)},
      budget      : {<< >>, NumText(0), NumText(1000)},
      travellers  : {<< >>, NumText(1), NumText(2)},
      interests   : {<< >>} ]

\* chat: texts that do not parse, zero and negative numbers, equal,
\* reversed, fractional and unparsable dates, and budgets exactly 5% off
\* the estimate
ChatInputs ==
    [ source      : {SourceNewYork},
      destination : {DestThailand, DestGenericPlace, DestJapanThailand,
                     DestIcelandSpain},
      startDate   : {StartDate},
      endDate     : {DateText(10), DateText(7), DateTimeText(10, 12),
                     DateTimeText(9, 12), UnparsableDate,
                     DateText(15), DateText(18), DateText(25)},
      budget      : {NumText(0), NumText(1000), <<"a", "b", "c">>,
                     <<"-", "3", "0">>, <<"$", "2", "0", "0", "0">>,
                     <<"2", ",", "5", "0", "0">>, NumText(4480), NumText(2260)},
      travellers  : {NumText(1), NumText(2), NumText(4), <<"-", "3">>,
                     NumText(0), <<"a", "b", "c">>,
                     <<"2", " ", "p", "e", "o", "p", "l", "e">>},
      interests   : {<< >>} ]

TripInputs == GridInputs \cup FormEdgeInputs \cup ChatInputs

-----------------------------------------------------------------------------
(* BudgetAnalystAgent, mounted by BudgetAnalystDemo *)

\* stages[i].name of performBudgetAnalysis, i counted from 0
stages == << "initializing", "flights", "accommodation", "food", "activities",
             "transportation", "miscellaneous", "compiling" >>

\* a faulty variant: the progress of the stages already finished, i / stages.length
ProgressMutant(i) == (i * 1000) \div Len(stages)

\* ((i + 1) / stages.length) * 100, in tenths of a percent
Progress(i) == ((i + 1) * 1000) \div Len(stages)

\* the demo before "Start" is pressed; the agent's state is what useState
\* will give it
Init ==
    /\ tripData \in TripInputs
    /\ showAnalyst = FALSE
    /\ isAnalyzing = FALSE
    /\ analysisStage = "initializing"
    /\ analysis = Null
    /\ currentStep = "analyzing"
    /\ analysisProgress = 0
    /\ stageIndex = -1
    /\ delivered = << >>
    /\ results = << >>
    /\ AnalystUnmounted /\ SearchUnmounted /\ ServiceIdle /\ PageIdle

\* setShowAnalyst(true): the agent mounts, its effect starts
\* performBudgetAnalysis, which runs up to the first await
StartAnalyst ==
    /\ ~showAnalyst
    /\ Len(results) < MaxCalls
    /\ showAnalyst' = TRUE
    /\ isAnalyzing' = TRUE
    /\ currentStep' = "analyzing"
    /\ analysis' = Null
    /\ stageIndex' = 0
    /\ analysisStage' = stages[1]
    /\ analysisProgress' = Progress(0)
    /\ UNCHANGED << tripData, delivered, results >>
    /\ UNCHANGED << analystVars, searchVars, serviceVars, pageVars >>

\* the delay of stage i elapses and the loop starts stage i + 1
StageElapsed ==
    /\ showAnalyst
    /\ stageIndex >= 0
    /\ stageIndex + 1 < Len(stages)
    /\ stageIndex' = stageIndex + 1
    /\ analysisStage' = stages[stageIndex + 2]
    /\ analysisProgress' = Progress(stageIndex + 1)
    /\ UNCHANGED << tripData, showAnalyst, isAnalyzing, analysis, currentStep,
                    delivered, results >>
    /\ UNCHANGED << analystVars, searchVars, serviceVars, pageVars >>

\* a faulty variant: the total is accumulated onto the previous call's total
FinishAnalysisMutant ==
    /\ showAnalyst
    /\ stageIndex + 1 = Len(stages)
    /\ LET fresh == generateBudgetAnalysis(tripData)
           generated ==
               IF results = << >> THEN fresh
               ELSE [fresh EXCEPT !.totalEstimated =
                                      Plus(fresh.totalEstimated,
                                           results[Len(results)].totalEstimated)]
       IN  /\ analysis' = generated
           /\ results' = Append(results, generated)
    /\ currentStep' = "review"
    /\ isAnalyzing' = FALSE
    /\ stageIndex' = -1
    /\ UNCHANGED << tripData, showAnalyst, analysisStage, analysisProgress,
                    delivered >>
    /\ UNCHANGED << analystVars, searchVars, serviceVars, pageVars >>

\* the delay of the last stage elapses: generateBudgetAnalysis, setAnalysis,
\* setCurrentStep('review'), setIsAnalyzing(false)
FinishAnalysis ==
    /\ showAnalyst
    /\ stageIndex + 1 = Len(stages)
    /\ LET generated == generateBudgetAnalysis(tripData)
       IN  /\ analysis' = generated
           /\ results' = Append(results, generated)
    /\ currentStep' = "review"
    /\ isAnalyzing' = FALSE
    /\ stageIndex' = -1
    /\ UNCHANGED << tripData, showAnalyst, analysisStage, analysisProgress,
                    delivered >>
    /\ UNCHANGED << analystVars, searchVars, serviceVars, pageVars >>

\* a faulty variant: the analysis is cleared once it has been handed over
handleCompleteMutant ==
    /\ showAnalyst
    /\ currentStep = "review" /\ ~isAnalyzing
    /\ analysis # Null
    /\ currentStep' = "completed"
    /\ delivered' = Append(delivered, analysis)
    /\ analysis' = Null
    /\ UNCHANGED << tripData, showAnalyst, isAnalyzing, analysisStage,
                    analysisProgress, stageIndex, results >>
    /\ UNCHANGED << analystVars, searchVars, serviceVars, pageVars >>

\* "Approve Budget Analysis", shown on the review screen
handleComplete ==
    /\ showAnalyst
    /\ currentStep = "review" /\ ~isAnalyzing
    /\ analysis # Null
    /\ currentStep' = "completed"
    /\ delivered' = Append(delivered, analysis)
    /\ UNCHANGED << tripData, showAnalyst, isAnalyzing, analysisStage, analysis,
                    analysisProgress, stageIndex, results >>
    /\ UNCHANGED << analystVars, searchVars, serviceVars, pageVars >>

\* "Continue Planning", shown on the completed screen: onComplete(analysis!)
ContinuePlanning ==
    /\ showAnalyst
    /\ currentStep = "completed" /\ ~isAnalyzing
    /\ Len(delivered) < MaxDelivered
    /\ delivered' = Append(delivered, analysis)
    /\ UNCHANGED << tripData, showAnalyst, isAnalyzing, analysisStage, analysis,
                    currentStep, analysisProgress, stageIndex, results >>
    /\ UNCHANGED << analystVars, searchVars, serviceVars, pageVars >>

\* "Back to Previous Step", shown on the review screen: the demo's
\* handleBack unmounts the agent, whose state is dropped
onBack ==
    /\ showAnalyst
    /\ currentStep = "review" /\ ~isAnalyzing
    /\ analysis # Null
    /\ showAnalyst' = FALSE
    /\ isAnalyzing' = FALSE
    /\ analysisStage' = "initializing"
    /\ analysis' = Null
    /\ currentStep' = "analyzing"
    /\ analysisProgress' = 0
    /\ stageIndex' = -1
    /\ UNCHANGED << tripData, delivered, results >>
    /\ UNCHANGED << analystVars, searchVars, serviceVars, pageVars >>

Next ==
    \/ StartAnalyst
    \/ StageElapsed
    \/ FinishAnalysis
    \/ handleComplete
    \/ ContinuePlanning
    \/ onBack

Spec == Init /\ [][Next]_vars

-----------------------------------------------------------------------------
(* Properties of generateBudgetAnalysis.  They are stated of the analysis  *)
(* the agent stores, in terms of the trip data it was computed from.       *)

Analysed == analysis # Null

\* totalDays and travelers as generateBudgetAnalysis computes them
D == TotalDays(tripData)
T == Travelers(tripData)

\* the trip has at least one day and at least one traveller
ValidTrip == ~D.nan /\ D.v >= 1 /\ T.v >= 1

AmountOf(a, category) == a.breakdown[category].amount

\* totalEstimated for travelers, totalDays and a multiplier m in tenths
EstimateFor(travelers, totalDays, m) ==
    TotalEstimated(Breakdown(travelers, totalDays, m))

\* C1: for totalDays >= 1 and travelers >= 1 every category amount is a
\* non-negative integer and totalEstimated is exactly the sum of the six
\* rounded amounts.
C1_RoundThenSum ==
    (Analysed /\ ValidTrip) =>
        /\ \A i \in 1..Len(Categories) :
               /\ ~AmountOf(analysis, Categories[i]).nan
               /\ AmountOf(analysis, Categories[i]).v \in Nat
        /\ analysis.totalEstimated =
               Num(  analysis.breakdown.flights.amount.v
                   + analysis.breakdown.accommodation.amount.v
                   + analysis.breakdown.food.amount.v
                   + analysis.breakdown.activities.amount.v
                   + analysis.breakdown.transportation.amount.v
                   + analysis.breakdown.miscellaneous.amount.v )

\* C1 witness: the longest documented trip with the largest documented party
C1_Witness ==
    /\ Analysed
    /\ D = Num(30) /\ T = Num(20)
    /\ analysis.breakdown.miscellaneous.amount.v > 0
    /\ analysis.totalEstimated.v > analysis.breakdown.flights.amount.v

\* x > b * 0.05 and x < -b * 0.05, false when x is NaN
AboveBand(x, b) == ~x.nan /\ 20 * x.v > b.v
BelowBand(x, b) == ~x.nan /\ 20 * x.v < -b.v

\* C2: budgetStatus is 'over' iff variance > 0.05 * originalBudget, 'under'
\* iff variance < -0.05 * originalBudget and 'on-track' otherwise; exactly
\* +5% and exactly -5% are 'on-track'.
C2_StatusIff ==
    Analysed =>
        /\ analysis.variance = Minus(analysis.totalEstimated, analysis.originalBudget)
        /\ analysis.budgetStatus \in {"over", "under", "on-track"}
        /\ analysis.budgetStatus = "over"
               <=> AboveBand(analysis.variance, analysis.originalBudget)
        /\ analysis.budgetStatus = "under"
               <=> BelowBand(analysis.variance, analysis.originalBudget)
        /\ (  ~analysis.variance.nan
            /\ (  20 * analysis.variance.v = analysis.originalBudget.v
               \/ 20 * analysis.variance.v = -analysis.originalBudget.v) )
               => analysis.budgetStatus = "on-track"

\* C2, for a positive budget (what the claim's cases are about): holds
C2_StatusIffPositiveBudget ==
    (Analysed /\ analysis.originalBudget.v > 0) => C2_StatusIff

\* C2: a variance of exactly +5%, and one of exactly -5%, of a positive
\* budget are reached
C2_UpperBoundary ==
    /\ Analysed
    /\ analysis.originalBudget.v > 0
    /\ 20 * analysis.variance.v = analysis.originalBudget.v
    /\ analysis.budgetStatus = "on-track"

C2_LowerBoundary ==
    /\ Analysed
    /\ analysis.originalBudget.v > 0
    /\ 20 * analysis.variance.v = -analysis.originalBudget.v
    /\ analysis.budgetStatus = "on-track"

\* C3: getDestinationMultiplier returns one of 1.5, 1.3, 0.9, 0.6, 1.0: the
\* multiplier of the first of the tiers very high, high, medium, low that
\* has a name contained in the lower-cased destination, and 1.0 when none
\* has ("Generic Place").
C3_FirstTierWins ==
    LET dest == ToLowerCase(tripData.destination)
        m    == getDestinationMultiplier(tripData.destination)
        vh   == SomeIncluded(veryHighCost, dest)
        h    == SomeIncluded(highCost, dest)
        md   == SomeIncluded(mediumCost, dest)
        l    == SomeIncluded(lowCost, dest)
    IN  /\ m \in {15, 13, 9, 6, 10}
        /\ vh => m = 15
        /\ (~vh /\ h) => m = 13
        /\ (~vh /\ ~h /\ md) => m = 9
        /\ (~vh /\ ~h /\ ~md /\ l) => m = 6
        /\ (~vh /\ ~h /\ ~md /\ ~l) => m = 10
        /\ tripData.destination = DestGenericPlace => m = 10
        \* the multiplier is the one the stored amounts were computed with
        /\ Analysed => analysis.breakdown.flights.amount =
                           flightsAmount(T.v, D, m)

\* C3 witness: "Japan and Thailand" names a high and a low tier and is
\* analysed with 1.3 (one traveller, five days: flights 600 * 1.3 = 780)
C3_Witness ==
    /\ Analysed
    /\ tripData.destination = DestJapanThailand
    /\ SomeIncluded(lowCost, ToLowerCase(tripData.destination))
    /\ SomeIncluded(highCost, ToLowerCase(tripData.destination))
    /\ T = Num(1) /\ D = Num(5)
    /\ analysis.breakdown.flights.amount = Num(780)

\* C4: for totalDays >= 1 and travelers >= 1, one more traveller never
\* lowers totalEstimated, and one more day never lowers it.
C4_Monotone ==
    (Analysed /\ ValidTrip) =>
        LET m == getDestinationMultiplier(tripData.destination)
            t == T.v
            d == D.v
        IN  /\ analysis.totalEstimated = EstimateFor(t, Num(d), m)
            /\ analysis.totalEstimated.v <= EstimateFor(t + 1, Num(d), m).v
            /\ analysis.totalEstimated.v <= EstimateFor(t, Num(d + 1), m).v

\* C4 witness: a seven-day trip, whose next day changes the flight factor
C4_Witness ==
    /\ Analysed
    /\ D = Num(7) /\ T = Num(20)
    /\ flightsAmount(T.v, Num(D.v + 1), 10).v > flightsAmount(T.v, D, 10).v
    /\ EstimateFor(T.v, Num(D.v + 1), getDestinationMultiplier(tripData.destination)).v
           > analysis.totalEstimated.v

C6_Input ==
    /\ tripData.destination = DestThailand
    /\ D = Num(5)
    /\ T = Num(2)
    /\ tripData.budget = NumText(1000)

\* C6 as claimed: accommodation 360, totalEstimated 1786, variance +786
C6_ScenarioAsClaimed ==
    (Analysed /\ C6_Input) =>
        /\ getDestinationMultiplier(tripData.destination) = 6
        /\ analysis.breakdown.flights.amount = Num(720)
        /\ analysis.breakdown.accommodation.amount = Num(360)
        /\ analysis.breakdown.food.amount = Num(270)
        /\ analysis.breakdown.activities.amount = Num(210)
        /\ analysis.breakdown.transportation.amount = Num(106)
        /\ analysis.breakdown.miscellaneous.amount = Num(120)
        /\ analysis.totalEstimated = Num(1786)
        /\ analysis.variance = Num(786)
        /\ analysis.budgetStatus = "over"

\* C6 amended: for Thailand, five days, two travellers and budget 1000 the
\* multiplier is 0.6 and the amounts are flights 720, accommodation 361
\* (85 * 5 * sqrt(2) * 0.6 = 360.62...), food 270, activities 210,
\* transportation 106, miscellaneous 120; totalEstimated 1787, variance
\* +787, budgetStatus 'over'.
C6_Scenario ==
    (Analysed /\ C6_Input) =>
        /\ getDestinationMultiplier(tripData.destination) = 6
        /\ analysis.breakdown.flights.amount = Num(720)
        /\ analysis.breakdown.accommodation.amount = Num(361)
        /\ analysis.breakdown.food.amount = Num(270)
        /\ analysis.breakdown.activities.amount = Num(210)
        /\ analysis.breakdown.transportation.amount = Num(106)
        /\ analysis.breakdown.miscellaneous.amount = Num(120)
        /\ analysis.totalEstimated = Num(1787)
        /\ analysis.originalBudget = Num(1000)
        /\ analysis.variance = Num(787)
        /\ analysis.budgetStatus = "over"

\* C6 witness: the scenario has been analysed
C6_Witness == Analysed /\ C6_Input /\ analysis.budgetStatus = "over"

\* the stated budget parses to 0
ZeroBudget == ParseInt(tripData.budget) = Num(0)

\* C7 as claimed: a stated budget of 0 is carried as originalBudget = 0 and
\* variancePercentage is infinite or NaN
C7_ZeroBudgetAsClaimed ==
    (Analysed /\ ZeroBudget) =>
        /\ analysis.originalBudget = Num(0)
        /\ analysis.variancePercentage.kind \in {"infinite", "nan"}

\* C7 amended: a stated budget of 0 is replaced by the fallback 2000 (0 is
\* falsy in parseInt(budget) || 2000), so originalBudget is never 0, the
\* division variance / originalBudget never divides by zero and
\* variancePercentage is never infinite; it is NaN exactly when
\* totalEstimated is NaN.
C7_ZeroBudget ==
    Analysed =>
        /\ analysis.originalBudget.v # 0
        /\ ZeroBudget => analysis.originalBudget = Num(2000)
        /\ analysis.variancePercentage.kind # "infinite"
        /\ analysis.variancePercentage.kind = "nan" <=> analysis.totalEstimated.nan
        /\ analysis.variancePercentage.kind = "finite" =>
               /\ analysis.variancePercentage.den = analysis.originalBudget.v
               /\ analysis.variancePercentage.num = 100 * analysis.variance.v

\* C7 witness: a budget of 0 analysed, with a finite variancePercentage
C7_Witness ==
    /\ Analysed
    /\ tripData.budget = NumText(0)
    /\ analysis.originalBudget = Num(2000)
    /\ analysis.variancePercentage.kind = "finite"

\* C8: for every budget text and travellers text the traveler count is a
\* positive integer (1 when the text does not parse) and originalBudget is
\* non-negative (2000 when the text does not parse).
C8_SaneDefaults ==
    Analysed =>
        /\ ~T.nan /\ T.v >= 1
        /\ ParseInt(tripData.travellers).nan => T = Num(1)
        /\ ~analysis.originalBudget.nan /\ analysis.originalBudget.v >= 0
        /\ ParseInt(tripData.budget).nan => analysis.originalBudget = Num(2000)

\* C9: totalDays is ceil((endDate - startDate) / 1 day) and is at least 1
\* for every pair of dates the collectors hand over.
C9_TotalDaysAtLeastOne ==
    Analysed =>
        /\ ~D.nan
        /\ D.v >= 1
        /\ LET diff == GetTime(tripData.endDate).v - GetTime(tripData.startDate).v
           IN  /\ D.v * HoursPerDay >= diff
               /\ (D.v - 1) * HoursPerDay < diff

\* C10: costSavingTips has four entries, Flights, Accommodation, Food,
\* Transportation, each potentialSavings is round(amount * rate) for the
\* rates 15%, 25%, 30%, 20%, and none exceeds its category amount.
C10_CostSavingTips ==
    Analysed =>
        LET tips  == analysis.costSavingTips
            names == << "Flights", "Accommodation", "Food", "Transportation" >>
            keys  == << "flights", "accommodation", "food", "transportation" >>
            rates == << 15, 25, 30, 20 >>
        IN  /\ Len(tips) = 4
            /\ \A i \in 1..4 :
                   /\ tips[i].category = names[i]
                   /\ tips[i].potentialSavings =
                          RoundPercent(AmountOf(analysis, keys[i]), rates[i])
                   /\ ~AmountOf(analysis, keys[i]).nan =>
                          tips[i].potentialSavings.v <= AmountOf(analysis, keys[i]).v

\* C10, for a trip of at least one day and one traveller: holds
C10_CostSavingTipsValidTrip == (Analysed /\ ValidTrip) => C10_CostSavingTips

-----------------------------------------------------------------------------
(* Properties of the rule lists of the stored analysis *)

\* the factor names of the stored analysis, in order
RiskNames ==
    [i \in 1..Len(analysis.riskFactors) |-> analysis.riskFactors[i].factor]

\* the impact the stored analysis reports for a factor: the set is empty
\* when the factor is not listed
ImpactsOf(factor) ==
    { analysis.riskFactors[i].impact :
          i \in { j \in 1..Len(analysis.riskFactors) :
                      analysis.riskFactors[j].factor = factor } }

\* C11: riskFactors lists "High-cost destination" iff the multiplier is
\* above 1.2, then "Extended trip duration" iff totalDays > 14, then always
\* "Currency fluctuation" and "Seasonal pricing" (2, 3 or 4 entries);
\* recommendations starts with the tips of the budget status (three for
\* 'over', three for 'under', two for 'on-track') and ends with the two
\* universal tips, booking in advance and then travel insurance.
C11_RuleLists ==
    Analysed =>
        LET m        == getDestinationMultiplier(tripData.destination)
            highCostly == m > 12
            extended == ~D.nan /\ D.v > 14
            recs     == analysis.recommendations
            n        == Len(recs)
            specific == IF analysis.budgetStatus = "on-track" THEN 2 ELSE 3
        IN  /\ RiskNames =
                   (IF highCostly THEN << "High-cost destination" >> ELSE << >>)
                   \o (IF extended THEN << "Extended trip duration" >> ELSE << >>)
                   \o << "Currency fluctuation", "Seasonal pricing" >>
            /\ Len(analysis.riskFactors) \in {2, 3, 4}
            /\ n = specific + 2
            /\ recs[n - 1] = "Book accommodation and major activities in advance for better rates"
            /\ recs[n] = "Consider travel insurance to protect your investment"
            /\ analysis.budgetStatus = "over" =>
                   recs[1] = "Consider booking flights earlier or being flexible with travel dates to reduce costs"
            /\ analysis.budgetStatus = "under" =>
                   recs[1] = "You have room in your budget for some premium experiences or upgrades"
            /\ analysis.budgetStatus = "on-track" =>
                   recs[1] = "Your budget looks well-balanced for this itinerary"
            /\ \A i \in 1..specific :
                   recs[i] \notin { recs[n - 1], recs[n] }

\* C11 witness: an over-budget trip of more than 14 days to a destination
\* with a multiplier above 1.2 has all four risk entries and five tips
C11_Witness ==
    /\ Analysed
    /\ Len(analysis.riskFactors) = 4
    /\ D.v > 14
    /\ getDestinationMultiplier(tripData.destination) > 12
    /\ analysis.budgetStatus = "over"
    /\ Len(analysis.recommendations) = 5

\* C12: the README's impact levels: "High-cost destination" and "Currency
\* fluctuation" are reported with impact 'high', "Extended trip duration"
\* and "Seasonal pricing" with impact 'medium'.
C12_ImpactsAsDocumented ==
    Analysed =>
        /\ ImpactsOf("High-cost destination") \subseteq {"high"}
        /\ ImpactsOf("Currency fluctuation") = {"high"}
        /\ ImpactsOf("Extended trip duration") \subseteq {"medium"}
        /\ ImpactsOf("Seasonal pricing") = {"medium"}

\* C12: what the code reports instead: currency 'medium', seasonal 'low'
C12_ImpactsAsCoded ==
    Analysed =>
        /\ ImpactsOf("High-cost destination") \subseteq {"high"}
        /\ ImpactsOf("Currency fluctuation") = {"medium"}
        /\ ImpactsOf("Extended trip duration") \subseteq {"medium"}
        /\ ImpactsOf("Seasonal pricing") = {"low"}

-----------------------------------------------------------------------------
(* Properties of the staged run of BudgetAnalystAgent *)

\* the stages in the documented order
StageOrder == << "initializing", "flights", "accommodation", "food",
                 "activities", "transportation", "miscellaneous", "compiling" >>

\* the place of a stage name in that order
StageNo(name) == CHOOSE i \in 1..Len(StageOrder) : StageOrder[i] = name

\* 100 percent, in the unit of analysisProgress
Complete == 1000

\* one step of a mounted agent
StagedStep ==
    /\ (~showAnalyst /\ showAnalyst') =>
           /\ analysisStage' = StageOrder[1]
           /\ analysis' = Null /\ currentStep' = "analyzing"
    /\ (showAnalyst /\ showAnalyst') =>
           /\ analysisProgress' >= analysisProgress
           /\ analysisStage' # analysisStage =>
                  /\ StageNo(analysisStage') = StageNo(analysisStage) + 1
                  /\ analysisProgress' > analysisProgress
                  /\ analysis' = Null /\ currentStep' = "analyzing"
           /\ (analysis = Null /\ analysis' # Null) =>
                  /\ analysisStage = "compiling"
                  /\ analysisProgress = Complete
                  /\ currentStep' = "review"
           /\ (currentStep = "analyzing" /\ currentStep' # "analyzing") =>
                  /\ analysisStage = "compiling"
                  /\ analysisProgress = Complete
                  /\ analysis' # Null

\* C14: the eight stages of performBudgetAnalysis run in the order
\* initializing, flights, accommodation, food, activities, transportation,
\* miscellaneous, compiling; analysisProgress only increases and is 100
\* when the last stage starts; the analysis is stored and currentStep
\* becomes 'review' only after the last stage, at progress 100, so the
\* results are never shown while progress is below 100.
C14_StagedProgress ==
    /\ [][StagedStep]_vars
    /\ [](analysisStage \in { StageOrder[i] : i \in 1..Len(StageOrder) })
    /\ [](analysisStage = "compiling" => analysisProgress = Complete)
    /\ [](analysisProgress < Complete =>
              analysis = Null /\ currentStep = "analyzing")
    /\ []((showAnalyst /\ ~isAnalyzing) => analysisProgress = Complete)

\* C14 witness: the review screen is shown, after the last stage
C14_Witness ==
    /\ showAnalyst /\ ~isAnalyzing
    /\ currentStep = "review" /\ analysis # Null
    /\ analysisStage = "compiling" /\ analysisProgress = Complete

-----------------------------------------------------------------------------
(* Frame properties of the stored analysis *)

\* one step seen from the stored analysis and the onComplete log
StoredAnalysisStep ==
    \* a stored analysis stays as it is while the agent stays mounted
    /\ (analysis # Null /\ showAnalyst') => analysis' = analysis
    \* what has been handed to onComplete stays as it was
    /\ Len(delivered') >= Len(delivered)
    /\ \A i \in 1..Len(delivered) : delivered'[i] = delivered[i]
    \* an onComplete call hands over the stored analysis, and keeps it
    /\ Len(delivered') > Len(delivered) =>
           /\ Len(delivered') = Len(delivered) + 1
           /\ analysis # Null
           /\ delivered'[Len(delivered')] = analysis
           /\ analysis' = analysis

\* C18: once performBudgetAnalysis has stored the analysis no later
\* operation of the agent (handleComplete, 'Continue Planning', onBack)
\* changes it (the demo's onBack unmounts the agent and so discards its
\* state; the analyses already handed over stay unchanged); currentStep in
\* {review, completed} implies a non-null analysis; and every onComplete
\* call passes exactly the stored analysis, which is the one
\* generateBudgetAnalysis returned.
C18_StoredAnalysisKept ==
    /\ [][StoredAnalysisStep]_vars
    /\ [](currentStep \in {"review", "completed"} => analysis # Null)
    /\ [](analysis # Null =>
              /\ results # << >>
              /\ analysis = results[Len(results)])
    /\ [](\A i \in 1..Len(delivered) :
              \E j \in 1..Len(results) : delivered[i] = results[j])

\* C18 witness: the analysis was approved and 'Continue Planning' pressed:
\* onComplete was called twice, both times with the stored analysis
C18_Witness ==
    /\ currentStep = "completed"
    /\ analysis # Null
    /\ Len(delivered) = 2
    /\ delivered[1] = analysis /\ delivered[2] = analysis

-----------------------------------------------------------------------------
(* TravelBudgetAnalyst (src/src/components/TravelBudgetAnalyst.tsx).        *)
(*  - Its props are typed values, so a text here is a plain string, and    *)
(*    travelers and budget are numbers.                                    *)
(*  - The per-day costs and the fares are whole dollars.  The one          *)
(*    fraction the component computes is the 10% buffer of the             *)
(*    miscellaneous cost, so analyzeTripBudget keeps every cost in tenths  *)
(*    of a dollar; the estimate functions, which end in Math.round, return *)
(*    whole dollars.                                                       *)

\* table[key] || dflt, for a table without falsy entries
Lookup(table, key, dflt) == IF key \in DOMAIN table THEN table[key] ELSE dflt

Cities == { "New York", "London", "Paris", "Tokyo", "Los Angeles", "Chicago",
            "Dubai", "Singapore", "Frankfurt", "Amsterdam" }

baseRates ==
    [c \in Cities |->
        CASE c = "New York" -> 400 [] c = "London" -> 600 [] c = "Paris" -> 650
          [] c = "Tokyo" -> 800 [] c = "Los Angeles" -> 350 [] c = "Chicago" -> 300
          [] c = "Dubai" -> 700 [] c = "Singapore" -> 750 [] c = "Frankfurt" -> 550
          [] c = "Amsterdam" -> 500]

nightlyRates ==
    [c \in Cities |->
        CASE c = "New York" -> 200 [] c = "London" -> 150 [] c = "Paris" -> 180
          [] c = "Tokyo" -> 120 [] c = "Los Angeles" -> 160 [] c = "Chicago" -> 140
          [] c = "Dubai" -> 250 [] c = "Singapore" -> 130 [] c = "Frankfurt" -> 110
          [] c = "Amsterdam" -> 120]

dailyFoodRates ==
    [c \in Cities |->
        CASE c = "New York" -> 80 [] c = "London" -> 70 [] c = "Paris" -> 75
          [] c = "Tokyo" -> 60 [] c = "Los Angeles" -> 70 [] c = "Chicago" -> 60
          [] c = "Dubai" -> 90 [] c = "Singapore" -> 50 [] c = "Frankfurt" -> 65
          [] c = "Amsterdam" -> 65]

baseDailyActivity ==
    [c \in Cities |->
        CASE c = "New York" -> 60 [] c = "London" -> 50 [] c = "Paris" -> 55
          [] c = "Tokyo" -> 45 [] c = "Los Angeles" -> 50 [] c = "Chicago" -> 40
          [] c = "Dubai" -> 70 [] c = "Singapore" -> 40 [] c = "Frankfurt" -> 35
          [] c = "Amsterdam" -> 40]

dailyTransportRates ==
    [c \in Cities |->
        CASE c = "New York" -> 25 [] c = "London" -> 20 [] c = "Paris" -> 18
          [] c = "Tokyo" -> 15 [] c = "Los Angeles" -> 30 [] c = "Chicago" -> 20
          [] c = "Dubai" -> 35 [] c = "Singapore" -> 12 [] c = "Frankfurt" -> 15
          [] c = "Amsterdam" -> 12]

\* Math.round(baseCost * multiplier * travelers), multiplier 1.2, 0.8 or 1.0
\* (baseCost is a multiple of 50, so the product is whole)
estimateFlightCost(source, destination, travelers, days) ==
    LET baseCost   == Lookup(baseRates, destination, 500)
        multiplier == IF days > 7 THEN 12 ELSE IF days < 3 THEN 8 ELSE 10
    IN  RoundDiv(baseCost * multiplier * travelers, 10)

\* Math.round(baseRate * days * roomsNeeded), roomsNeeded = Math.ceil(travelers / 2)
estimateAccommodationCost(destination, days, travelers) ==
    LET baseRate    == Lookup(nightlyRates, destination, 150)
        roomsNeeded == CeilDiv(travelers, 2)
    IN  baseRate * days * roomsNeeded

estimateFoodCost(destination, days, travelers) ==
    Lookup(dailyFoodRates, destination, 70) * days * travelers

RECURSIVE Pow2Floor(_)
\* the largest power of two that is at most n, for n >= 1
Pow2Floor(n) == IF n < 2 THEN 1 ELSE 2 * Pow2Floor(n \div 2)

\* Math.round(x * 0.7) for a whole x >= 0.  The double 0.7 is a little
\* below 7/10, so where 7x/10 is k + 1/2 the double product is k + 1/2
\* (rounded up to k + 1) only if the significand of k + 1/2 is at most 1.75;
\* otherwise it is just below k + 1/2 and Math.round gives k.
RoundTimes07(x) ==
    IF x % 10 = 5 /\ 2 * x > 5 * Pow2Floor((7 * x) \div 10)
    THEN (7 * x) \div 10
    ELSE RoundDiv(7 * x, 10)

\* Math.round(baseRate * days * travelers * interestMultiplier); the double
\* 1.3 is a little above 13/10, so a half is rounded up
estimateActivityCost(destination, interests, days, travelers) ==
    LET baseRate == Lookup(baseDailyActivity, destination, 50)
        x        == baseRate * days * travelers
    IN  IF Len(interests) > 3 THEN RoundDiv(13 * x, 10)
        ELSE IF Len(interests) < 2 THEN RoundTimes07(x)
        ELSE x

estimateTransportationCost(destination, days, travelers) ==
    Lookup(dailyTransportRates, destination, 20) * days * travelers

\* Math.round(sum * 0.15) (the double product of a half case is the half)
estimateMiscellaneousCost(destination, days, travelers) ==
    RoundDiv( 15 * (  estimateFlightCost("", destination, travelers, days)
                    + estimateAccommodationCost(destination, days, travelers)
                    + estimateFoodCost(destination, days, travelers)
                    + estimateActivityCost(destination, << >>, days, travelers)
                    + estimateTransportationCost(destination, days, travelers) ),
              100 )

\* tenths of a dollar in a dollar: x * 0.1 is one tenth of x
Tenths == 10

RECURSIVE SumOver(_, _)
\* costs.reduce((total, cost) => total + cost, 0), from the i-th cost on
SumOver(costs, i) ==
    IF i > Len(costs) THEN 0 ELSE costs[i] + SumOver(costs, i + 1)

\* day.meals.reduce((mealTotal, meal) => mealTotal + meal.cost, 0)
dayFoodCost(day) ==
    SumOver([k \in DOMAIN day.meals |-> day.meals[k].cost], 1)

\* day.activities.filter(activity => category of it is one of categories)
\*    .reduce((total, activity) => total + activity.estimatedCost, 0)
dayCostIn(day, categories) ==
    LET Cost(activity) == IF activity.category \in categories
                          THEN activity.estimatedCost ELSE 0
    IN  SumOver([k \in DOMAIN day.activities |-> Cost(day.activities[k])], 1)

\* Math.max(1, Math.ceil((endDate.getTime() - startDate.getTime()) / day)),
\* endDate being the return date or, without one, itinerary.length days
\* after the departure; for date texts that new Date() parses
tripTotalDays(trip, days) ==
    LET startDate == GetTime(trip.departureDate).v
        endDate   == IF trip.returnDate # Null
                     THEN GetTime(trip.returnDate).v
                     ELSE startDate + Len(days) * HoursPerDay
        ceil      == CeilDiv(endDate - startDate, HoursPerDay)
    IN  IF ceil > 1 THEN ceil ELSE 1

\* a faulty variant: the fare of the return flight is left out
flightCostMutant(trip, flights, totalDays) ==
    IF flights # Null
    THEN Tenths * (flights.outbound.price.amount * trip.travelers)
    ELSE Tenths * estimateFlightCost(trip.source, trip.destination,
                                     trip.travelers, totalDays)

\* 1. flight costs
flightCost(trip, flights, totalDays) ==
    IF flights # Null
    THEN Tenths * ( ( flights.outbound.price.amount
                     + (IF flights.return # Null
                        THEN flights.return.price.amount ELSE 0) )
                   * trip.travelers )
    ELSE Tenths * estimateFlightCost(trip.source, trip.destination,
                                     trip.travelers, totalDays)

\* 2. accommodation costs; day.accommodation?.pricePerNight || 0
accommodationCost(trip, days, totalDays) ==
    IF Len(days) > 0 /\ days[1].accommodation # Null
    THEN LET Cost(day) == IF day.accommodation # Null
                          THEN day.accommodation.pricePerNight ELSE 0
         IN  Tenths * SumOver([k \in DOMAIN days |-> Cost(days[k])], 1)
    ELSE Tenths * estimateAccommodationCost(trip.destination, totalDays,
                                            trip.travelers)

\* a faulty variant: the flat formula is used whatever the itinerary holds
foodCostMutant(trip, days, totalDays) ==
    Tenths * estimateFoodCost(trip.destination, totalDays, trip.travelers)

\* 3. food costs
foodCost(trip, days, totalDays) ==
    IF Len(days) > 0
    THEN Tenths * (SumOver([k \in DOMAIN days |-> dayFoodCost(days[k])], 1)
                   * trip.travelers)
    ELSE Tenths * estimateFoodCost(trip.destination, totalDays, trip.travelers)

\* 4. activity costs
activityCost(trip, days, totalDays) ==
    IF Len(days) > 0
    THEN LET Cost(day) == dayCostIn(day, {"activity", "sightseeing"})
         IN  Tenths * (SumOver([k \in DOMAIN days |-> Cost(days[k])], 1)
                       * trip.travelers)
    ELSE Tenths * estimateActivityCost(trip.destination, trip.interests,
                                       totalDays, trip.travelers)

\* 5. transportation costs
transportCost(trip, days, totalDays) ==
    IF Len(days) > 0
    THEN LET Cost(day) == dayCostIn(day, {"transport"})
         IN  Tenths * (SumOver([k \in DOMAIN days |-> Cost(days[k])], 1)
                       * trip.travelers)
    ELSE Tenths * estimateTransportationCost(trip.destination, totalDays,
                                             trip.travelers)

\* 6. miscellaneous costs; others is the sum of the five costs above, in
\* tenths of a dollar, and others * 0.1 is others \div Tenths of them
miscCost(trip, days, totalDays, others) ==
    IF Len(days) > 0
    THEN LET Cost(day) == dayCostIn(day, {"shopping"})
         IN  Tenths * (SumOver([k \in DOMAIN days |-> Cost(days[k])], 1)
                       * trip.travelers)
             + others \div Tenths
    ELSE Tenths * estimateMiscellaneousCost(trip.destination, totalDays,
                                            trip.travelers)

\* Object.keys(breakdown), in insertion order
BreakdownKeys == << "flights", "accommodation", "food", "activities",
                    "transportation", "miscellaneous" >>

\* the sum of the six amounts, as generateBudgetRecommendations adds them up
AmountSum(breakdown) ==
      breakdown.flights.amount + breakdown.accommodation.amount
    + breakdown.food.amount + breakdown.activities.amount
    + breakdown.transportation.amount + breakdown.miscellaneous.amount

RECURSIVE ReduceKeys(_, _, _, _)
\* categories.reduce((prev, current) => a > b ? prev : current) for the
\* highest category and ... a < b ? prev : current for the lowest, a and b
\* being the amounts of prev and current
ReduceKeys(breakdown, highest, prev, i) ==
    IF i > Len(BreakdownKeys) THEN prev
    ELSE LET current == BreakdownKeys[i]
             a == breakdown[prev].amount
             b == breakdown[current].amount
         IN  ReduceKeys(breakdown, highest,
                        IF (IF highest THEN a > b ELSE a < b)
                        THEN prev ELSE current,
                        i + 1)

\* Object.entries(breakdown).sort(([,a], [,b]) => b.amount - a.amount): the
\* place, from 0, the stable sort gives the i-th key
SortedPlace(breakdown, i) ==
    Cardinality({ j \in 1..Len(BreakdownKeys) :
        \/ breakdown[BreakdownKeys[j]].amount > breakdown[BreakdownKeys[i]].amount
        \/ /\ breakdown[BreakdownKeys[j]].amount = breakdown[BreakdownKeys[i]].amount
           /\ j < i })

\* the switch on the category: miscellaneous has no case
CostCuttingTip(category) ==
    CASE category = "flights" ->
             << [text |-> "Consider flexible dates or alternative airports to reduce flight costs"] >>
      [] category = "accommodation" ->
             << [text |-> "Try hostels, Airbnb, or hotels in less central areas"] >>
      [] category = "food" ->
             << [text |-> "Mix restaurant meals with local markets and street food"] >>
      [] category = "activities" ->
             << [text |-> "Prioritize must-see attractions and look for free activities"] >>
      [] category = "transportation" ->
             << [text |-> "Use public transport instead of taxis and ride-shares"] >>
      [] OTHER -> << >>

\* a recommendation is a record of its text and of the number or the name
\* put into it; userBudget is Null (undefined) or a number
generateBudgetRecommendations(breakdown, status, destination, days, userBudget) ==
    LET budgeted == userBudget # Null /\ userBudget.v # 0
        sorted(k) == BreakdownKeys[CHOOSE i \in 1..Len(BreakdownKeys) :
                                      SortedPlace(breakdown, i) = k]
        largest  == CHOOSE i \in 1..Len(BreakdownKeys) :
                        /\ \A j \in 1..Len(BreakdownKeys) :
                               breakdown[BreakdownKeys[j]].amount
                                   <= breakdown[BreakdownKeys[i]].amount
                        /\ \A j \in 1..(i - 1) :
                               breakdown[BreakdownKeys[j]].amount
                                   < breakdown[BreakdownKeys[i]].amount
    IN  ( IF status = "over" /\ budgeted
          THEN << [text   |-> "Budget exceeded by $",
                   amount |-> Tenths * RoundDiv(AmountSum(breakdown) - Tenths * userBudget.v,
                                                Tenths)] >>
               \o CostCuttingTip(sorted(0)) \o CostCuttingTip(sorted(1))
               \o CostCuttingTip(sorted(2))
          ELSE << >> )
        \o ( IF status = "under" /\ budgeted
             THEN << [text   |-> "You're under budget by $",
                      amount |-> Tenths * RoundDiv(Tenths * userBudget.v - AmountSum(breakdown),
                                                   Tenths)],
                     [text |-> "Consider upgrading accommodation or adding premium experiences"],
                     [text |-> "Budget allows for some luxury dining or unique activities"] >>
             ELSE << >> )
        \o << [category |-> BreakdownKeys[largest],
               text     |-> " represents your largest expense category"] >>
        \o ( IF days >= 7
             THEN << [text |-> "Extended stay detected - consider weekly accommodation rates"] >>
             ELSE << >> )
        \o << [text |-> "Keep 10-15% extra for unexpected expenses and currency fluctuations"] >>

\* every amount of the result is in tenths of a dollar; a percentage is
\* kept as the quotient it is computed from; trip.budget is Null
\* (undefined) or a number
analyzeTripBudget(trip, days, flights) ==
    LET totalDays         == tripTotalDays(trip, days)
        flightsAmount10   == flightCost(trip, flights, totalDays)
        accommodation10   == accommodationCost(trip, days, totalDays)
        food10            == foodCost(trip, days, totalDays)
        activities10      == activityCost(trip, days, totalDays)
        transportation10  == transportCost(trip, days, totalDays)
        misc10            == miscCost(trip, days, totalDays,
                                      flightsAmount10 + accommodation10 + food10
                                      + activities10 + transportation10)
        totalCost         == flightsAmount10 + accommodation10 + food10
                             + activities10 + transportation10 + misc10
        Entry(amount)     == [amount     |-> amount,
                              percentage |-> Divide(Num(amount), Num(totalCost))]
        breakdown         == [flights        |-> Entry(flightsAmount10),
                              accommodation  |-> Entry(accommodation10),
                              food           |-> Entry(food10),
                              activities     |-> Entry(activities10),
                              transportation |-> Entry(transportation10),
                              miscellaneous  |-> Entry(misc10)]
        budgeted          == trip.budget # Null /\ trip.budget.v # 0
        \* totalCost < budget * 0.95, totalCost > budget * 1.05
        budgetStatus      == IF ~budgeted THEN "no-budget"
                             ELSE IF 2 * totalCost < 19 * trip.budget.v THEN "under"
                             ELSE IF 2 * totalCost > 21 * trip.budget.v THEN "over"
                             ELSE "exact"
    IN  [ totalEstimatedCost |-> Tenths * RoundDiv(totalCost, Tenths),
          userBudget         |-> trip.budget,
          budgetStatus       |-> budgetStatus,
          budgetDifference   |-> IF budgeted THEN Num(totalCost - Tenths * trip.budget.v)
                                             ELSE Null,
          breakdown          |-> breakdown,
          recommendations    |-> generateBudgetRecommendations(
                                     breakdown, budgetStatus, trip.destination,
                                     totalDays, trip.budget),
          costPerPerson      |-> Tenths * RoundDiv(totalCost, Tenths * trip.travelers),
          currency           |-> "USD",
          analysis           |-> [ highestCategory  |->
                                       ReduceKeys(breakdown, TRUE, BreakdownKeys[1], 2),
                                   lowestCategory   |->
                                       ReduceKeys(breakdown, FALSE, BreakdownKeys[1], 2),
                                   averageDailyCost |->
                                       Tenths * RoundDiv(totalCost, Tenths * totalDays),
                                   totalDays        |-> totalDays ] ]

-----------------------------------------------------------------------------
(* The props of TravelBudgetAnalyst *)

\* trips to a listed and to an unlisted city, of one day to ten, with and
\* without a return date and a budget, and with 0, 1, 2 and 4 interests
AnalystTrips ==
    [ source        : {"New York"},
      destination   : {"Tokyo", "Paris", "Reykjavik"},
      departureDate : {DateText(10)},
      returnDate    : {Null, DateText(8), DateText(12), DateText(20)},
      travelers     : 1..MaxParty,
      budget        : {Null, Num(0), Num(1500), Num(3000)},
      interests     : { << >>, << "culture" >>, << "culture", "food" >>,
                        << "culture", "food", "shopping", "nature" >> } ]

\* a day with an entry of every category, three meals and a hotel
DayWithHotel ==
    [ day           |-> 1,
      activities    |-> << [estimatedCost |-> 25, category |-> "sightseeing"],
                           [estimatedCost |-> 15, category |-> "food"],
                           [estimatedCost |-> 10, category |-> "transport"],
                           [estimatedCost |-> 40, category |-> "shopping"],
                           [estimatedCost |-> 30, category |-> "activity"] >>,
      accommodation |-> [pricePerNight |-> 120],
      meals         |-> << [cost |-> 12], [cost |-> 18], [cost |-> 35] >> ]

\* a day without accommodation
DayWithoutHotel ==
    [ day           |-> 2,
      activities    |-> << [estimatedCost |-> 0, category |-> "sightseeing"],
                           [estimatedCost |-> 7, category |-> "transport"] >>,
      accommodation |-> Null,
      meals         |-> << [cost |-> 9] >> ]

Itineraries ==
    { << >>, << DayWithHotel >>, << DayWithHotel, DayWithoutHotel >>,
      << DayWithoutHotel, DayWithHotel >> }

Fare(amount) == [price |-> [amount |-> amount, currency |-> "USD"]]

\* no selection, an outbound flight only, an outbound and a return flight
FlightSelections ==
    { Null,
      [outbound |-> Fare(450), return |-> Null],
      [outbound |-> Fare(450), return |-> Fare(385)] }

-----------------------------------------------------------------------------
(* TravelBudgetAnalyst, the component *)

\* stages[i].name of its performBudgetAnalysis, i counted from 0
analystStages == << "initializing", "flights", "accommodation", "activities",
                    "food", "transport", "misc", "analyzing", "finalizing" >>

\* ((i + 1) / stages.length) * 100, counted in stages.length-ths of a percent
AnalystProgress(i) == (i + 1) * 100

AnalystInit ==
    /\ tripDetails \in AnalystTrips
    /\ itinerary \in Itineraries
    /\ flightSelection \in FlightSelections
    /\ analystMounted = FALSE
    /\ analystIsAnalyzing = FALSE
    /\ analystStage = "initializing"
    /\ analystProgress = 0
    /\ analystStageIndex = -1
    /\ budgetAnalysis = Null
    /\ completed = << >>
    /\ AgentUnmounted /\ SearchUnmounted /\ ServiceIdle /\ PageIdle

\* the component mounts; its effect starts performBudgetAnalysis, which
\* runs up to the first await
MountBudgetAnalyst ==
    /\ ~analystMounted
    /\ analystMounted' = TRUE
    /\ analystIsAnalyzing' = TRUE
    /\ analystStageIndex' = 0
    /\ analystStage' = analystStages[1]
    /\ analystProgress' = AnalystProgress(0)
    /\ UNCHANGED << tripDetails, itinerary, flightSelection, budgetAnalysis,
                    completed >>
    /\ UNCHANGED << agentVars, searchVars, serviceVars, pageVars >>

\* the delay of stage i elapses and the loop starts stage i + 1
AnalystStageElapsed ==
    /\ analystMounted
    /\ analystStageIndex >= 0
    /\ analystStageIndex + 1 < Len(analystStages)
    /\ analystStageIndex' = analystStageIndex + 1
    /\ analystStage' = analystStages[analystStageIndex + 2]
    /\ analystProgress' = AnalystProgress(analystStageIndex + 1)
    /\ UNCHANGED << tripDetails, itinerary, flightSelection, analystMounted,
                    analystIsAnalyzing, budgetAnalysis, completed >>
    /\ UNCHANGED << agentVars, searchVars, serviceVars, pageVars >>

\* the delay of the last stage elapses: analyzeTripBudget, setBudgetAnalysis,
\* onAnalysisComplete, and setIsAnalyzing(false) in the finally block
FinishBudgetAnalysis ==
    /\ analystMounted
    /\ analystStageIndex + 1 = Len(analystStages)
    /\ LET result == analyzeTripBudget(tripDetails, itinerary, flightSelection)
       IN  /\ budgetAnalysis' = result
           /\ completed' = Append(completed, result)
    /\ analystIsAnalyzing' = FALSE
    /\ analystStageIndex' = -1
    /\ UNCHANGED << tripDetails, itinerary, flightSelection, analystMounted,
                    analystStage, analystProgress >>
    /\ UNCHANGED << agentVars, searchVars, serviceVars, pageVars >>

AnalystNext ==
    \/ MountBudgetAnalyst
    \/ AnalystStageElapsed
    \/ FinishBudgetAnalysis

SpecAnalyst == AnalystInit /\ [][AnalystNext]_vars

-----------------------------------------------------------------------------
(* Properties of analyzeTripBudget.  They are stated of the analysis       *)
(* TravelBudgetAnalyst stores, in terms of the props it was computed from; *)
(* amounts are in tenths of a dollar.                                      *)

BudgetAnalysed == budgetAnalysis # Null

\* the lists of interests a trip may carry
InterestLists == { trip.interests : trip \in AnalystTrips }

\* the cost figures of an analysis of TravelBudgetAnalyst
CostFigures(a) ==
    [ amounts    |-> [i \in 1..Len(BreakdownKeys) |->
                          a.breakdown[BreakdownKeys[i]].amount],
      total      |-> a.totalEstimatedCost,
      difference |-> a.budgetDifference,
      status     |-> a.budgetStatus ]

\* C13: two trips that differ only in their interests get identical
\* category amounts, total, variance and budget status from the estimator,
\* here from TravelBudgetAnalyst.analyzeTripBudget.
C13_InterestsIgnored ==
    BudgetAnalysed =>
        \A interests \in InterestLists :
            CostFigures(analyzeTripBudget(
                            [tripDetails EXCEPT !.interests = interests],
                            itinerary, flightSelection))
                = CostFigures(budgetAnalysis)

\* C13, for generateBudgetAnalysis of BudgetAnalystAgent: holds
C13_AgentIgnoresInterests ==
    Analysed =>
        \A interests \in InterestLists :
            LET other == generateBudgetAnalysis(
                             [tripData EXCEPT !.interests = interests])
            IN  /\ other.breakdown = analysis.breakdown
                /\ other.totalEstimated = analysis.totalEstimated
                /\ other.variance = analysis.variance
                /\ other.budgetStatus = analysis.budgetStatus

\* C13, for analyzeTripBudget with an itinerary of at least one day: holds
C13_InterestsIgnoredWithItinerary ==
    (BudgetAnalysed /\ Len(itinerary) > 0) => C13_InterestsIgnored

\* the fares of the flight selection, in dollars
SelectedFares ==
    flightSelection.outbound.price.amount
    + (IF flightSelection.return # Null
       THEN flightSelection.return.price.amount ELSE 0)

\* C15: with a flight selection the flights amount is (outbound fare +
\* return fare, if a return flight is selected) x travelers, whatever the
\* flat formula gives; without one it is the flat estimate, and the
\* analysis completes: it is stored and handed to onAnalysisComplete.
C15_FlightPriceOverride ==
    /\ BudgetAnalysed =>
           budgetAnalysis.breakdown.flights.amount =
               IF flightSelection # Null
               THEN Tenths * (SelectedFares * tripDetails.travelers)
               ELSE Tenths * estimateFlightCost(
                                 tripDetails.source, tripDetails.destination,
                                 tripDetails.travelers,
                                 budgetAnalysis.analysis.totalDays)
    /\ (analystMounted /\ ~analystIsAnalyzing) =>
           /\ BudgetAnalysed
           /\ completed = << budgetAnalysis >>

\* C15 witness: an outbound and a return flight for two travellers, whose
\* fares differ from the flat estimate
C15_Witness ==
    /\ BudgetAnalysed
    /\ flightSelection # Null
    /\ flightSelection.return # Null
    /\ tripDetails.travelers = 2
    /\ budgetAnalysis.breakdown.flights.amount = Tenths * ((450 + 385) * 2)
    /\ budgetAnalysis.breakdown.flights.amount #
           Tenths * estimateFlightCost(tripDetails.source, tripDetails.destination,
                                       tripDetails.travelers,
                                       budgetAnalysis.analysis.totalDays)

\* the costs of the per-day entries of the itinerary, from the given day
\* on, whose kind is one of kinds: a meal has the kind "meal", an activity
\* has its category as its kind
RECURSIVE EntryTotal(_, _)
EntryTotal(day, kinds) ==
    IF day > Len(itinerary) THEN 0
    ELSE LET meals      == itinerary[day].meals
             activities == itinerary[day].activities
             MealSum[i \in 0..Len(meals)] ==
                 IF i = 0 THEN 0 ELSE MealSum[i - 1] + meals[i].cost
             ActivitySum[i \in 0..Len(activities)] ==
                 IF i = 0 THEN 0
                 ELSE ActivitySum[i - 1]
                      + (IF activities[i].category \in kinds
                         THEN activities[i].estimatedCost ELSE 0)
         IN  (IF "meal" \in kinds THEN MealSum[Len(meals)] ELSE 0)
             + ActivitySum[Len(activities)]
             + EntryTotal(day + 1, kinds)

\* the amounts of the stored analysis
StoredAmount(category) == budgetAnalysis.breakdown[category].amount

\* the sum of the five amounts other than miscellaneous
StoredOthers ==
    StoredAmount("flights") + StoredAmount("accommodation")
    + StoredAmount("food") + StoredAmount("activities")
    + StoredAmount("transportation")

\* with an empty itinerary food, activities, transportation and
\* miscellaneous are the flat estimates
FlatWithoutItinerary ==
    LET trip == tripDetails
        days == budgetAnalysis.analysis.totalDays
    IN  /\ StoredAmount("food") =
               Tenths * estimateFoodCost(trip.destination, days, trip.travelers)
        /\ StoredAmount("activities") =
               Tenths * estimateActivityCost(trip.destination, trip.interests,
                                             days, trip.travelers)
        /\ StoredAmount("transportation") =
               Tenths * estimateTransportationCost(trip.destination, days,
                                                   trip.travelers)
        /\ StoredAmount("miscellaneous") =
               Tenths * estimateMiscellaneousCost(trip.destination, days,
                                                  trip.travelers)

\* C16, as claimed: with an itinerary of at least one day the food,
\* activities, transportation and shopping sub-totals are the sums of the
\* costs of the per-day entries (meals; activities of category activity or
\* sightseeing; of category transport; of category shopping); with an empty
\* itinerary each of them is its flat formula.
C16_ItineraryOverrideAsClaimed ==
    BudgetAnalysed =>
        IF Len(itinerary) > 0
        THEN /\ StoredAmount("food") = Tenths * EntryTotal(1, {"meal"})
             /\ StoredAmount("activities") =
                    Tenths * EntryTotal(1, {"activity", "sightseeing"})
             /\ StoredAmount("transportation") =
                    Tenths * EntryTotal(1, {"transport"})
             /\ StoredAmount("miscellaneous") =
                    Tenths * EntryTotal(1, {"shopping"}) + StoredOthers \div Tenths
        ELSE FlatWithoutItinerary

\* C16, amended: with an itinerary of at least one day the food,
\* activities, transportation and shopping sub-totals are the sums of the
\* costs of the per-day entries multiplied by the traveler count (the
\* shopping sub-total is the miscellaneous amount less the 10% buffer), and
\* the flat formulas are not used for them; with an empty itinerary each of
\* them is its flat formula.
C16_ItineraryOverride ==
    BudgetAnalysed =>
        IF Len(itinerary) > 0
        THEN LET n == tripDetails.travelers
             IN  /\ StoredAmount("food") = Tenths * (EntryTotal(1, {"meal"}) * n)
                 /\ StoredAmount("activities") =
                        Tenths * (EntryTotal(1, {"activity", "sightseeing"}) * n)
                 /\ StoredAmount("transportation") =
                        Tenths * (EntryTotal(1, {"transport"}) * n)
                 /\ StoredAmount("miscellaneous") =
                        Tenths * (EntryTotal(1, {"shopping"}) * n)
                        + StoredOthers \div Tenths
        ELSE FlatWithoutItinerary

\* C16 witness: a two-day itinerary for two travellers: meals of 74, so
\* food 148, which no flat food formula gives (the daily rates are 60, 75
\* and 70 per person)
C16_Witness ==
    /\ BudgetAnalysed
    /\ Len(itinerary) = 2
    /\ tripDetails.travelers = 2
    /\ StoredAmount("food") = Tenths * 148
    /\ StoredAmount("food") #
           Tenths * estimateFoodCost(tripDetails.destination,
                                     budgetAnalysis.analysis.totalDays,
                                     tripDetails.travelers)

\* C17: totalEstimatedCost equals the sum of the six breakdown amounts,
\* with the flat formulas and with an itinerary alike.
C17_TotalIsSumOfAmounts ==
    BudgetAnalysed =>
        budgetAnalysis.totalEstimatedCost = AmountSum(budgetAnalysis.breakdown)

\* C17, with an empty itinerary (every amount is rounded): holds
C17_TotalIsSumWithoutItinerary ==
    (BudgetAnalysed /\ Len(itinerary) = 0) => C17_TotalIsSumOfAmounts

\* C17: what holds with an itinerary too: totalEstimatedCost is the sum of
\* the amounts rounded to a whole dollar, so it is off by up to half a
\* dollar when the 10% buffer is not whole
C17_TotalIsRoundedSum ==
    BudgetAnalysed =>
        /\ budgetAnalysis.totalEstimatedCost =
               Tenths * RoundDiv(AmountSum(budgetAnalysis.breakdown), Tenths)
        /\ 2 * (budgetAnalysis.totalEstimatedCost
                - AmountSum(budgetAnalysis.breakdown)) \in -(Tenths - 1)..Tenths

-----------------------------------------------------------------------------
(* FlightSearchAgent and the searchFlights of flightApiService                *)
(*                                                                            *)
(* A call that throws, or an async call that rejects, yields Thrown(message); *)
(* every other value of these operators is a record without a field thrown.   *)

Thrown(message) == [thrown |-> TRUE, message |-> message]

IsThrown(value) == "thrown" \in DOMAIN value

\* array.slice(0, n)
Slice(array, n) == SubSeq(array, 1, IF Len(array) < n THEN Len(array) ELSE n)

\* the most flights the response of one provider lists
MaxApiFlights == 4

\* flightApiService.searchFlights: apiProviders, all enabled in API_CONFIG
apiProviders == << "skyscanner", "amadeus", "kiwi", "rapidapi" >>

\* what the calls of the four provider methods do: throw (no key, network
\* error, HTTP status not OK), resolve with no flight, resolve with flights
ProviderOutcomes == [1..Len(apiProviders) -> {"throws", "empty", "flights"}]

\* the response of a provider that lists n flights
ProviderResponse(provider, n) ==
    [ flights  |-> [i \in 1..n |->
                       [ id           |-> << provider, i >>,
                         price        |-> 350 + 40 * ((2 * i) % 3),
                         totalMinutes |-> 200 + 30 * i ]],
      metadata |-> [ totalResults |-> n, searchEngine |-> provider ] ]

RECURSIVE TryProviders(_, _, _, _)
\* the loop over the providers from the i-th on; failed: is lastError set
TryProviders(outcomes, n, i, failed) ==
    IF i > Len(apiProviders)
    THEN IF failed THEN Thrown("All flight APIs failed")
         ELSE Thrown("No flights found from any provider")
    ELSE IF outcomes[i] = "flights"
         THEN ProviderResponse(apiProviders[i], n)
         ELSE TryProviders(outcomes, n, i + 1, failed \/ outcomes[i] = "throws")

\* flightApiService.searchFlights(params), the providers behaving as outcomes
\* says and a provider that finds flights finding n of them
flightApiService_searchFlights(outcomes, n) == TryProviders(outcomes, n, 1, FALSE)

\* the first three of the airlines of generateMockFlightData
airlines == << "DL", "AA", "UA" >>

\* the values Math.random() takes in one run of the three generateFlightOption
\* calls of one direction: what it adds to the price and to the duration of
\* each flight, and the stops of the third flight
MockRandoms ==
    { [ price |-> << 0, 0, 0 >>,   minutes |-> << 0, 0, 0 >>,   stops |-> 1 ],
      [ price |-> << 199, 0, 0 >>, minutes |-> << 179, 0, 0 >>, stops |-> 2 ] }

\* generateFlightOption(airline, index, type); new Date(text).toISOString()
\* throws a RangeError when new Date() cannot parse text; the arrival date is
\* the date of the text (no flight lasts more than 720 minutes)
generateFlightOption(params, index, type, random) ==
    LET date  == IF type = "outbound" THEN params.departureDate
                 ELSE params.returnDate
        stops == IF index = 0 THEN 0 ELSE IF index = 1 THEN 1 ELSE random.stops
    IN  IF GetTime(date).nan
        THEN Thrown("RangeError: Invalid time value")
        ELSE [ id           |-> << type, airlines[index + 1], index >>,
               price        |-> 300 + index * 150 + random.price[index + 1],
               totalMinutes |-> 120 + stops * 90 + random.minutes[index + 1],
               arrivalDate  |-> DateText(date.day) ]

RECURSIVE ReduceFlights(_, _, _, _)
\* flights.reduce((prev, current) => prev.f < current.f ? prev : current),
\* f being the price (byPrice) or the duration, from the i-th flight on
ReduceFlights(flights, byPrice, prev, i) ==
    IF i > Len(flights) THEN prev
    ELSE LET current == flights[i]
             less    == IF byPrice THEN prev.price < current.price
                        ELSE prev.totalMinutes < current.totalMinutes
         IN  ReduceFlights(flights, byPrice,
                           IF less THEN prev ELSE current, i + 1)

\* the FlightSearchResult both searchFlights and generateMockFlightData
\* build; reduce() without an initial value throws on an empty array
FlightSearchResult(params, outboundFlights, returnFlights, metadata) ==
    IF Len(outboundFlights) = 0
    THEN Thrown("TypeError: Reduce of empty array with no initial value")
    ELSE [ params          |-> params,
           results         |-> [ outbound |-> outboundFlights,
                                 return   |-> returnFlights ],
           metadata        |-> metadata,
           recommendations |->
               [ cheapest |-> ReduceFlights(outboundFlights, TRUE,
                                            outboundFlights[1], 2),
                 fastest  |-> ReduceFlights(outboundFlights, FALSE,
                                            outboundFlights[1], 2),
                 best     |-> outboundFlights[1] ] ]

\* generateMockFlightData(params); the return flights are generated when
\* params.returnDate is there.  results.return, an optional array, is Null or
\* [flights |-> the array]
generateMockFlightData(params, randomOut, randomBack) ==
    LET outboundFlights == [k \in 1..Len(airlines) |->
                               generateFlightOption(params, k - 1, "outbound",
                                                    randomOut)]
        returnFlights   == IF params.returnDate # Null
                           THEN [k \in 1..Len(airlines) |->
                                    generateFlightOption(params, k - 1, "return",
                                                         randomBack)]
                           ELSE Null
    IN  IF IsThrown(outboundFlights[1]) THEN outboundFlights[1]
        ELSE IF params.returnDate # Null /\ IsThrown(returnFlights[1])
        THEN returnFlights[1]
        ELSE FlightSearchResult(params, outboundFlights,
                                IF params.returnDate # Null
                                THEN [ flights |-> returnFlights ] ELSE Null,
                                [ totalResults |-> 127,
                                  searchEngine |-> "FlightSearch Pro v2.1" ])

\* the search parameters FlightSearchAgent is given: departureDate and
\* returnDate are strings nothing validates, returnDate is optional
FlightSearchParamsSet ==
    { [ source        |-> "New York",
        destination   |-> "Tokyo",
        departureDate |-> departureDate,
        returnDate    |-> returnDate,
        travelers     |-> travelers ] :
      departureDate \in {DateText(10), UnparsableDate},
      returnDate \in {Null, DateText(12), UnparsableDate},
      travelers \in 1..MaxParty }

\* performFlightSearch: stages
searchStages ==
    << "initializing", "connecting", "searching", "analyzing", "filtering",
       "finalizing" >>

\* ((i + 1) / stages.length) * 100, in sixths of a percent
SearchProgress(i) == (i + 1) * 100

SearchInit ==
    /\ searchParams \in FlightSearchParamsSet
    /\ searchMounted = FALSE
    /\ isSearching = FALSE
    /\ searchStage = "initializing"
    /\ searchProgress = 0
    /\ searchStageIndex = -1
    /\ searchResults = Null
    /\ apiError = Null
    /\ unhandled = FALSE
    /\ searchPc = "idle"
    /\ searchLocal = Null
    /\ selectedOutbound = Null /\ selectedReturn = Null
    /\ clickedOutbound = Null /\ clickedReturn = Null
    /\ handedOver = << >>
    /\ AgentUnmounted /\ AnalystUnmounted /\ ServiceIdle /\ PageIdle

\* the component mounts: its effect calls performFlightSearch, which runs up
\* to the timer of the first stage
MountFlightSearch ==
    /\ ~searchMounted
    /\ searchMounted' = TRUE
    /\ isSearching' = TRUE
    /\ apiError' = Null
    /\ searchStageIndex' = 0
    /\ searchStage' = searchStages[1]
    /\ searchProgress' = SearchProgress(0)
    /\ searchPc' = "stages"
    /\ UNCHANGED << searchParams, searchResults, unhandled, searchLocal >>
    /\ UNCHANGED selectionVars
    /\ UNCHANGED << agentVars, analystVars, serviceVars, pageVars >>

\* the timer of a stage but the last fires: the next stage is shown
SearchStageElapsed ==
    /\ searchPc = "stages"
    /\ searchStageIndex + 1 < Len(searchStages)
    /\ searchStageIndex' = searchStageIndex + 1
    /\ searchStage' = searchStages[searchStageIndex + 2]
    /\ searchProgress' = SearchProgress(searchStageIndex + 1)
    /\ UNCHANGED << searchParams, searchMounted, isSearching, searchResults,
                    apiError, unhandled, searchPc, searchLocal >>
    /\ UNCHANGED selectionVars
    /\ UNCHANGED << agentVars, analystVars, serviceVars, pageVars >>

\* await searchFlights(searchParams) is over in performFlightSearch: with a
\* result, setSearchResults(results) and the finally block; with an error,
\* the catch block up to its await generateMockFlightData(searchParams)
SearchSettled(result) ==
    IF IsThrown(result)
    THEN /\ apiError' = "Failed to fetch flight data. Please try again."
         /\ searchPc' = "fallback"
         /\ UNCHANGED << isSearching, searchResults, unhandled >>
    ELSE /\ searchResults' = result
         /\ isSearching' = FALSE
         /\ searchPc' = "done"
         /\ UNCHANGED << apiError, unhandled >>

\* catch (error) { return generateMockFlightData(params) } of searchFlights
FallBackToMock(result, mock) == IF IsThrown(result) THEN mock ELSE result

\* the timer of the last stage fires: searchFlights imports the flight API
\* service and calls its searchFlights for the outbound flights; a failed
\* import is caught like any error of searchFlights
StartSearchFlights ==
    /\ searchPc = "stages"
    /\ searchStageIndex + 1 = Len(searchStages)
    /\ searchStageIndex' = Len(searchStages)
    /\ \E imported \in BOOLEAN, randomOut \in MockRandoms,
          randomBack \in MockRandoms :
           IF imported
           THEN /\ searchPc' = "outbound"
                /\ UNCHANGED << isSearching, searchResults, apiError, unhandled >>
           ELSE SearchSettled(generateMockFlightData(searchParams, randomOut,
                                                     randomBack))
    /\ UNCHANGED << searchParams, searchMounted, searchStage, searchProgress,
                    searchLocal >>
    /\ UNCHANGED selectionVars
    /\ UNCHANGED << agentVars, analystVars, serviceVars, pageVars >>

\* the outbound search of the flight API service is over
OutboundSearched ==
    /\ searchPc = "outbound"
    /\ \E outcomes \in ProviderOutcomes, n \in 1..MaxApiFlights,
          randomOut \in MockRandoms, randomBack \in MockRandoms :
        LET apiResponse == flightApiService_searchFlights(outcomes, n)
            mock        == generateMockFlightData(searchParams, randomOut,
                                                  randomBack)
        IN  IF IsThrown(apiResponse)
            THEN SearchSettled(mock) /\ UNCHANGED searchLocal
            ELSE IF searchParams.returnDate # Null
            THEN /\ searchLocal' = apiResponse
                 /\ searchPc' = "return"
                 /\ UNCHANGED << isSearching, searchResults, apiError,
                                 unhandled >>
            ELSE /\ SearchSettled(FallBackToMock(
                        FlightSearchResult(searchParams,
                                           Slice(apiResponse.flights, 3), Null,
                                           apiResponse.metadata),
                        mock))
                 /\ UNCHANGED searchLocal
    /\ UNCHANGED << searchParams, searchMounted, searchStage, searchProgress,
                    searchStageIndex >>
    /\ UNCHANGED selectionVars
    /\ UNCHANGED << agentVars, analystVars, serviceVars, pageVars >>

\* the return search of the flight API service is over; when it failed the
\* return flights are those of generateMockFlightData(params)
ReturnSearched ==
    /\ searchPc = "return"
    /\ \E outcomes \in ProviderOutcomes, n \in 1..MaxApiFlights,
          randomOut \in MockRandoms, randomBack \in MockRandoms,
          random3 \in MockRandoms, random4 \in MockRandoms :
        LET returnApiResponse == flightApiService_searchFlights(outcomes, n)
            mockResult  == generateMockFlightData(searchParams, randomOut,
                                                  randomBack)
            returnFlights ==
                IF IsThrown(returnApiResponse)
                THEN IF IsThrown(mockResult) THEN mockResult
                     ELSE mockResult.results.return
                ELSE [ flights |-> Slice(returnApiResponse.flights, 3) ]
            result ==
                IF IsThrown(returnFlights) THEN returnFlights
                ELSE FlightSearchResult(searchParams,
                                        Slice(searchLocal.flights, 3),
                                        returnFlights,
                                        searchLocal.metadata)
        IN  SearchSettled(FallBackToMock(
                result,
                generateMockFlightData(searchParams, random3, random4)))
    /\ UNCHANGED << searchParams, searchMounted, searchStage, searchProgress,
                    searchStageIndex, searchLocal >>
    /\ UNCHANGED selectionVars
    /\ UNCHANGED << agentVars, analystVars, serviceVars, pageVars >>

\* await generateMockFlightData(searchParams) of the catch block is over:
\* setSearchResults(fallbackResults), or its error leaves performFlightSearch
\* through the finally block
FallbackElapsed ==
    /\ searchPc = "fallback"
    /\ \E randomOut \in MockRandoms, randomBack \in MockRandoms :
        LET fallbackResults == generateMockFlightData(searchParams, randomOut,
                                                      randomBack)
        IN  IF IsThrown(fallbackResults)
            THEN unhandled' = TRUE /\ UNCHANGED searchResults
            ELSE searchResults' = fallbackResults /\ UNCHANGED unhandled
    /\ isSearching' = FALSE
    /\ searchPc' = "done"
    /\ UNCHANGED << searchParams, searchMounted, searchStage, searchProgress,
                    searchStageIndex, apiError, searchLocal >>
    /\ UNCHANGED selectionVars
    /\ UNCHANGED << agentVars, analystVars, serviceVars, pageVars >>

(* FlightSearchAgent: the selection of flights                                *)

\* how many times the model lets the user confirm a selection
MaxHandOvers == 1

\* the results are rendered: if (isSearching) ... if (searchResults) ...
ResultsShown == ~isSearching /\ searchResults # Null

\* const hasReturn
hasReturn ==
    /\ searchResults.results.return # Null
    /\ Len(searchResults.results.return.flights) > 0

\* a faulty variant: the return flight is not asked for
isSelectionCompleteMutant == selectedOutbound # Null

\* const isSelectionComplete
isSelectionComplete ==
    selectedOutbound # Null /\ (~hasReturn \/ selectedReturn # Null)

\* the cards rendered for the flights of a direction
Cards(type) ==
    IF type = "outbound" THEN searchResults.results.outbound
    ELSE IF hasReturn THEN searchResults.results.return.flights ELSE << >>

\* a click on a flight card: handleFlightSelection(flight, type)
handleFlightSelection ==
    /\ ResultsShown
    /\ \E type \in {"outbound", "return"} :
        \E k \in 1..Len(Cards(type)) :
            LET flight == Cards(type)[k]
            IN  IF type = "outbound"
                THEN /\ selectedOutbound' = flight
                     /\ clickedOutbound' = flight
                     /\ UNCHANGED << selectedReturn, clickedReturn >>
                ELSE /\ selectedReturn' = flight
                     /\ clickedReturn' = flight
                     /\ UNCHANGED << selectedOutbound, clickedOutbound >>
    /\ UNCHANGED handedOver
    /\ UNCHANGED << searchParams, searchMounted, isSearching, searchStage,
                    searchProgress, searchStageIndex, searchResults, apiError,
                    unhandled, searchPc, searchLocal >>
    /\ UNCHANGED << agentVars, analystVars, serviceVars, pageVars >>

\* a click on 'Confirm Selection', which is disabled while the selection is
\* not complete: handleConfirmSelection()
handleConfirmSelection ==
    /\ ResultsShown
    /\ isSelectionComplete
    /\ Len(handedOver) < MaxHandOvers
    /\ IF selectedOutbound = Null
       THEN UNCHANGED handedOver
       ELSE handedOver' = Append(handedOver, [ outbound |-> selectedOutbound,
                                               return   |-> selectedReturn ])
    /\ UNCHANGED << selectedOutbound, selectedReturn, clickedOutbound,
                    clickedReturn >>
    /\ UNCHANGED << searchParams, searchMounted, isSearching, searchStage,
                    searchProgress, searchStageIndex, searchResults, apiError,
                    unhandled, searchPc, searchLocal >>
    /\ UNCHANGED << agentVars, analystVars, serviceVars, pageVars >>

SearchNext ==
    \/ MountFlightSearch
    \/ SearchStageElapsed
    \/ StartSearchFlights
    \/ OutboundSearched
    \/ ReturnSearched
    \/ FallbackElapsed
    \/ handleFlightSelection
    \/ handleConfirmSelection

SpecSearch == SearchInit /\ [][SearchNext]_vars

\* performFlightSearch has finished
SearchFinished == searchPc = "done"

\* C19: whenever performFlightSearch has finished, isSearching is false,
\* searchResults holds a result with at least one outbound flight, and no
\* error has left performFlightSearch unhandled
C19_MockFallback ==
    SearchFinished =>
        /\ isSearching = FALSE
        /\ searchResults # Null
        /\ Len(searchResults.results.outbound) >= 1
        /\ ~unhandled

\* new Date() parses every date of the search parameters
DatesParse ==
    /\ ~GetTime(searchParams.departureDate).nan
    /\ searchParams.returnDate # Null => ~GetTime(searchParams.returnDate).nan

\* C19, for search parameters whose dates new Date() parses: the fallback
\* covers every failure of the flight API
C19_MockFallbackForParsedDates == DatesParse => C19_MockFallback

\* performFlightSearch always ends with isSearching false
C19_SearchingEnds == SearchFinished => isSearching = FALSE

\* a search has finished after every provider failed, with mock results
C19_Witness ==
    /\ SearchFinished
    /\ searchResults # Null
    /\ searchResults.metadata.searchEngine = "FlightSearch Pro v2.1"

\* C29: onFlightSelected is called only with an outbound flight selected and,
\* when the results hold return flights, a return flight selected too; the
\* flights handed over are the cards of each direction clicked last.
C29_ConfirmHandsOverLastClicked ==
    [][ handedOver' # handedOver =>
          /\ clickedOutbound # Null
          /\ hasReturn => clickedReturn # Null
          /\ handedOver' = Append(handedOver,
                                  [ outbound |-> clickedOutbound,
                                    return   |-> clickedReturn ]) ]_vars

\* a round trip was confirmed after the user changed the outbound flight
C29_Witness ==
    /\ Len(handedOver) > 0
    /\ hasReturn
    /\ handedOver[1].return # Null
    /\ handedOver[1].outbound # searchResults.results.outbound[1]

\* a one-way selection was confirmed
C29_WitnessOneWay ==
    /\ Len(handedOver) > 0
    /\ ~hasReturn
    /\ handedOver[1].return = Null

-----------------------------------------------------------------------------
(* flightService.ts: FlightSearchService over SkyscannerAPI                   *)
(*                                                                            *)
(* Airport queries and codes are sequences of characters.  A value an async   *)
(* method resolves with is [value |-> v]; a rejection is Thrown(message).     *)

UpperChar(c) ==
    IF \E i \in 1..Len(LowerCase) : LowerCase[i] = c
    THEN UpperCase[CHOOSE i \in 1..Len(LowerCase) : LowerCase[i] = c]
    ELSE c

\* String.prototype.toUpperCase
ToUpperCase(s) == [i \in 1..Len(s) |-> UpperChar(s[i])]

\* getMockAirportCode: mockCodes
mockCodes ==
    << [ key |-> << "n", "e", "w", " ", "y", "o", "r", "k" >>,
         code |-> << "N", "Y", "C", "A" >> ],
       [ key |-> << "n", "y", "c" >>, code |-> << "N", "Y", "C", "A" >> ],
       [ key |-> << "j", "f", "k" >>, code |-> << "N", "Y", "C", "A" >> ],
       [ key |-> << "l", "o", "s", " ", "a", "n", "g", "e", "l", "e", "s" >>,
         code |-> << "L", "A", "X", "A" >> ],
       [ key |-> << "l", "a" >>, code |-> << "L", "A", "X", "A" >> ],
       [ key |-> << "l", "a", "x" >>, code |-> << "L", "A", "X", "A" >> ],
       [ key |-> << "l", "o", "n", "d", "o", "n" >>,
         code |-> << "L", "O", "N", "D" >> ],
       [ key |-> << "p", "a", "r", "i", "s" >>, code |-> << "P", "A", "R", "I" >> ],
       [ key |-> << "t", "o", "k", "y", "o" >>, code |-> << "T", "Y", "O", "A" >> ],
       [ key |-> << "m", "i", "a", "m", "i" >>, code |-> << "M", "I", "A", "M" >> ],
       [ key |-> << "c", "h", "i", "c", "a", "g", "o" >>,
         code |-> << "C", "H", "I", "A" >> ] >>

\* mockCodes[query.toLowerCase()] || query.toUpperCase()
getMockAirportCode(query) ==
    LET key == ToLowerCase(query)
    IN  IF \E i \in 1..Len(mockCodes) : mockCodes[i].key = key
        THEN mockCodes[CHOOSE i \in 1..Len(mockCodes) : mockCodes[i].key = key].code
        ELSE ToUpperCase(query)

\* getMockFlights(): one flight
getMockFlights == << [ id |-> "mock_flight_1", price |-> 450 ] >>

\* the ids of the itineraries a response lists
ItineraryIds ==
    << "itinerary_1", "itinerary_2", "itinerary_3", "itinerary_4",
       "itinerary_5", "itinerary_6" >>

\* what a fetch of SkyscannerAPI ends with: the network fails ("network"),
\* the status is not OK ("status"), the body is not JSON ("invalid"), it is
\* the JSON null ("null"), it has no data ("nodata"), or it has them ("data")
Failures == {"network", "status", "invalid", "null", "nodata"}

\* ... for flights/searchAirport: count airports found, the first with skyId
AirportResponses ==
    { [ outcome |-> o, count |-> 0, skyId |-> << >> ] : o \in Failures }
    \cup { [ outcome |-> "data", count |-> 0, skyId |-> << >> ],
           [ outcome |-> "data", count |-> 1, skyId |-> << >> ],
           [ outcome |-> "data", count |-> 1, skyId |-> << "S", "K", "Y" >> ] }

\* ... for flights/searchFlights: count itineraries
FlightResponses ==
    { [ outcome |-> o, count |-> 0 ] : o \in Failures }
    \cup { [ outcome |-> "data", count |-> n ] : n \in 0..MaxApiFlights }

\* the try block of a method: what fetch, the test of response.ok and
\* response.json() throw
FetchError(response) ==
    CASE response.outcome = "network" -> Thrown("TypeError: Failed to fetch")
      [] response.outcome = "status"  -> Thrown("API error: status")
      [] response.outcome = "invalid" -> Thrown("SyntaxError: not JSON")
      [] response.outcome = "null"    ->
             Thrown("TypeError: Cannot read properties of null")
      [] OTHER -> Null

\* a faulty variant: the catch block throws the error again
SkyscannerAPI_searchFlightsMutant(key, response) ==
    IF ~key THEN [ value |-> getMockFlights ]
    ELSE IF FetchError(response) # Null THEN FetchError(response)
    ELSE [ value |-> [i \in 1..response.count |->
                         [ id |-> ItineraryIds[i], price |-> 400 + 10 * i ]] ]

\* SkyscannerAPI.searchFlights(params), key: is this.apiKey set; response is
\* what the fetch ends with when one is made; data.data?.itineraries || []
SkyscannerAPI_searchFlights(key, response) ==
    IF ~key THEN [ value |-> getMockFlights ]
    ELSE IF FetchError(response) # Null THEN [ value |-> getMockFlights ]
    ELSE [ value |-> [i \in 1..response.count |->
                         [ id |-> ItineraryIds[i], price |-> 400 + 10 * i ]] ]

\* SkyscannerAPI.getAirportCode(query); data.data?.[0]?.skyId || query
SkyscannerAPI_getAirportCode(key, query, response) ==
    IF ~key THEN [ value |-> getMockAirportCode(query) ]
    ELSE IF FetchError(response) # Null
    THEN [ value |-> getMockAirportCode(query) ]
    ELSE IF response.count > 0 /\ Len(response.skyId) > 0
    THEN [ value |-> response.skyId ]
    ELSE [ value |-> query ]

\* the arguments of FlightSearchService.searchFlights
ServiceParamsSet ==
    { [ origin      |-> origin,
        destination |-> destination,
        adults      |-> adults,
        budget      |-> budget ] :
      origin \in { << "N", "e", "w", " ", "Y", "o", "r", "k" >>,
                   << "O", "s", "l", "o" >> },
      destination \in { << "t", "o", "k", "y", "o" >>, << >> },
      adults \in 1..MaxParty,
      budget \in {Null, Num(1500)} }

\* the module is loaded: the singleton flightService is constructed, with the
\* key of the environment or without one
ServiceInit ==
    /\ apiKey \in BOOLEAN
    /\ serviceParams \in ServiceParamsSet
    /\ servicePc = "idle"
    /\ originCode = Null /\ destinationCode = Null
    /\ serviceResult = Null
    /\ serviceRejected = FALSE
    /\ requests = << >>
    /\ AgentUnmounted /\ AnalystUnmounted /\ SearchUnmounted /\ PageIdle

\* the requests made so far and one more, if the API has a key
Requested(call, response) ==
    IF apiKey THEN Append(requests, [ call |-> call, response |-> response ])
    ELSE requests

\* an awaited method of the API has settled with result: the call goes on to
\* pc with the value assigned, or rejects with the error
ServiceAwaited(result, pc) ==
    IF IsThrown(result)
    THEN /\ serviceRejected' = TRUE
         /\ servicePc' = "done"
         /\ UNCHANGED << originCode, destinationCode, serviceResult >>
    ELSE /\ servicePc' = pc
         /\ serviceRejected' = FALSE
         /\ originCode' = IF servicePc = "origin" THEN result ELSE originCode
         /\ destinationCode' = IF servicePc = "destination" THEN result
                               ELSE destinationCode
         /\ serviceResult' = IF servicePc = "search"
                             THEN [ value |-> Slice(result.value, 3) ]
                             ELSE serviceResult

\* flightService.searchFlights(params) is called: it calls
\* this.api.getAirportCode(params.origin)
CallSearchFlights ==
    /\ servicePc = "idle"
    /\ servicePc' = "origin"
    /\ UNCHANGED << apiKey, serviceParams, originCode, destinationCode,
                    serviceResult, serviceRejected, requests >>
    /\ UNCHANGED << agentVars, analystVars, searchVars, pageVars >>

\* await this.api.getAirportCode(params.origin) is over
OriginCodeResolved ==
    /\ servicePc = "origin"
    /\ \E response \in AirportResponses :
        /\ ServiceAwaited(SkyscannerAPI_getAirportCode(apiKey,
                              serviceParams.origin, response), "destination")
        /\ requests' = Requested("searchAirport", response)
    /\ UNCHANGED << apiKey, serviceParams >>
    /\ UNCHANGED << agentVars, analystVars, searchVars, pageVars >>

\* await this.api.getAirportCode(params.destination) is over
DestinationCodeResolved ==
    /\ servicePc = "destination"
    /\ \E response \in AirportResponses :
        /\ ServiceAwaited(SkyscannerAPI_getAirportCode(apiKey,
                              serviceParams.destination, response), "search")
        /\ requests' = Requested("searchAirport", response)
    /\ UNCHANGED << apiKey, serviceParams >>
    /\ UNCHANGED << agentVars, analystVars, searchVars, pageVars >>

\* await this.api.searchFlights(searchParams) is over: results.slice(0, 3)
FlightsResolved ==
    /\ servicePc = "search"
    /\ \E response \in FlightResponses :
        /\ ServiceAwaited(SkyscannerAPI_searchFlights(apiKey, response), "done")
        /\ requests' = Requested("searchFlights", response)
    /\ UNCHANGED << apiKey, serviceParams >>
    /\ UNCHANGED << agentVars, analystVars, searchVars, pageVars >>

ServiceNext ==
    \/ CallSearchFlights
    \/ OriginCodeResolved
    \/ DestinationCodeResolved
    \/ FlightsResolved

SpecService == ServiceInit /\ [][ServiceNext]_vars

\* the k-th request failed: a network error or an HTTP status that is not OK
RequestFailed(k) == requests[k].response.outcome \in {"network", "status"}

C20_WitnessWithoutKey ==
    /\ servicePc = "done"
    /\ ~apiKey
    /\ serviceResult.value = getMockFlights

-----------------------------------------------------------------------------
(* FlightApiService.searchFlights, provider by provider                       *)

\* what the call of one provider method does: throw because its API key is
\* not configured, throw because of the network or of the HTTP status,
\* resolve with no flight, resolve with flights
ProviderBehaviours == {"no key", "error", "empty", "flights"}

\* the message of the error a provider method throws
ProviderError(provider, behaviour) ==
    [ message |-> << provider,
                     IF behaviour = "no key" THEN "API key not configured"
                     ELSE "API error" >> ]

ApiInit ==
    /\ ApiIdle
    /\ StandaloneIdle /\ IndexIdle /\ ChatIdle /\ BookingIdle

\* searchFlights(params) is called: the loop calls the first provider
ApiSearchCalled ==
    /\ apiPc = "idle"
    /\ apiPc' = "trying"
    /\ apiIndex' = 1
    /\ UNCHANGED << apiAttempts, lastError, apiResult >>
    /\ UNCHANGED << standaloneVars, indexVars, chatVars, bookingVars >>

\* a faulty variant: a result without flights is returned as well
ReturnsResultMutant(flights) == TRUE

\* if (result.flights.length > 0) return result
ReturnsResult(flights) == Len(flights) > 0

\* what follows the loop: throw new Error(...)
AfterProviders(error) ==
    IF error # Null
    THEN Thrown(<< "All flight APIs failed. Last error: ", error.message >>)
    ELSE Thrown("No flights found from any provider")

\* await provider.method.call(this, params) is over: the result is returned,
\* or the loop goes on to the next provider, or the loop is over
ProviderSettled ==
    /\ apiPc = "trying"
    /\ \E behaviour \in ProviderBehaviours, n \in 1..MaxApiFlights :
        LET provider == apiProviders[apiIndex]
            threw    == behaviour \in {"no key", "error"}
            result   == ProviderResponse(provider,
                                         IF behaviour = "flights" THEN n ELSE 0)
            error    == IF threw THEN ProviderError(provider, behaviour)
                        ELSE lastError
        IN  /\ apiAttempts' = Append(apiAttempts,
                                     [ provider  |-> provider,
                                       behaviour |-> behaviour,
                                       flights   |-> IF threw THEN 0
                                                     ELSE Len(result.flights) ])
            /\ lastError' = error
            /\ IF ~threw /\ ReturnsResult(result.flights)
               THEN /\ apiResult' = result
                    /\ apiPc' = "done"
                    /\ UNCHANGED apiIndex
               ELSE IF apiIndex < Len(apiProviders)
               THEN /\ apiIndex' = apiIndex + 1
                    /\ UNCHANGED << apiPc, apiResult >>
               ELSE /\ apiResult' = AfterProviders(error)
                    /\ apiPc' = "done"
                    /\ UNCHANGED apiIndex
    /\ UNCHANGED << standaloneVars, indexVars, chatVars, bookingVars >>

ApiNext ==
    \/ ApiSearchCalled
    \/ ProviderSettled

SpecApi == ApiInit /\ [][ApiNext]_vars

\* the k-th provider called did not come up with a flight
CameUpEmpty(k) == apiAttempts[k].behaviour # "flights"

\* what the providers called so far did, as outcomes of TryProviders; the
\* providers not called are given the outcome rest
OutcomesSoFar(rest) ==
    [i \in 1..Len(apiProviders) |->
        IF i > Len(apiAttempts) THEN rest
        ELSE IF apiAttempts[i].behaviour \in {"no key", "error"} THEN "throws"
        ELSE apiAttempts[i].behaviour]

\* C22: the providers are called in the order skyscanner, amadeus, kiwi,
\* rapidapi, each only after every earlier one threw or returned no flight;
\* the call returns the result of the first provider that returns a flight,
\* and calls no provider after it; when all four came up empty the call
\* throws 'All flight APIs failed' with the error of the provider that threw
\* last, or 'No flights found from any provider' when none threw; it never
\* returns an empty list of flights
C22_ProviderOrder ==
    /\ \A k \in 1..Len(apiAttempts) :
        /\ apiAttempts[k].provider = apiProviders[k]
        /\ k < Len(apiAttempts) => CameUpEmpty(k)
    /\ apiPc = "trying" =>
        /\ apiResult = Null
        /\ Len(apiAttempts) = apiIndex - 1
        /\ \A k \in 1..Len(apiAttempts) : CameUpEmpty(k)
    /\ apiPc = "done" /\ ~IsThrown(apiResult) =>
        /\ ~CameUpEmpty(Len(apiAttempts))
        /\ apiResult.metadata.searchEngine
               = apiAttempts[Len(apiAttempts)].provider
        /\ Len(apiResult.flights) = apiAttempts[Len(apiAttempts)].flights
        /\ Len(apiResult.flights) >= 1
    /\ apiPc = "done" /\ IsThrown(apiResult) =>
        /\ Len(apiAttempts) = Len(apiProviders)
        /\ \A k \in 1..Len(apiAttempts) : CameUpEmpty(k)
        /\ IF \E k \in 1..Len(apiAttempts) : apiAttempts[k].behaviour # "empty"
           THEN LET last == CHOOSE k \in 1..Len(apiAttempts) :
                               /\ apiAttempts[k].behaviour # "empty"
                               /\ \A j \in (k + 1)..Len(apiAttempts) :
                                      apiAttempts[j].behaviour = "empty"
                IN  apiResult.message =
                        << "All flight APIs failed. Last error: ",
                           ProviderError(apiAttempts[last].provider,
                                         apiAttempts[last].behaviour).message >>
           ELSE apiResult.message = "No flights found from any provider"

\* the call ends as TryProviders says, which FlightSearchAgent's model uses
C22_AgreesWithTryProviders ==
    apiPc = "done" =>
        IsThrown(apiResult)
            = IsThrown(flightApiService_searchFlights(OutcomesSoFar("empty"), 1))

\* the third provider returned flights after the first threw and the second
\* found none
C22_Witness ==
    /\ apiPc = "done"
    /\ Len(apiAttempts) = 3
    /\ apiAttempts[1].behaviour = "no key"
    /\ apiAttempts[2].behaviour = "empty"
    /\ apiResult.metadata.searchEngine = "kiwi"

\* every provider failed
C22_WitnessAllFailed ==
    /\ apiPc = "done"
    /\ IsThrown(apiResult)
    /\ apiAttempts[4].behaviour = "empty"
    /\ apiAttempts[3].behaviour = "error"

-----------------------------------------------------------------------------
(* The Index page and its TripPlannerForm                                     *)

\* how many times the model lets trip data be handed to the page
MaxCollected == 2

\* how many TripPlannerForm instances the model lets the page mount
MaxForms == 2

\* type WorkflowStage
WorkflowStages == {"input", "itinerary", "flights", "complete"}

\* the fields of the form, in the order of the form's state
formFields == << "source", "destination", "startDate", "endDate", "budget",
                 "travellers" >>

\* what the user can type into each field; nothing compares the two dates
FieldValues ==
    [ source      |-> {"", "New York"},
      destination |-> {"", "Tokyo"},
      startDate   |-> {"", "2025-06-10"},
      endDate     |-> {"", "2025-06-05", "2025-06-12"},
      budget      |-> {"", "2000"},
      travellers  |-> {"1"} ]

\* useState<TripFormData>({...}) of TripPlannerForm
InitialFormData ==
    [ source |-> "", destination |-> "", startDate |-> "", endDate |-> "",
      budget |-> "", travellers |-> "1" ]

\* the trip data TravelConcierge hands over when its user confirms
ConciergeTripData ==
    { [ source |-> "Boston", destination |-> "Lisbon",
        startDate |-> "July 1", endDate |-> "July 9", budget |-> "3000",
        travellers |-> "2", interests |-> i ] :
      i \in { << >>, << "food", "culture" >> } }

\* what ItineraryPlannerAgent hands to onComplete; the page only stores it
PlannedItinerary == [ title |-> "itinerary" ]

\* what FlightBookingAgent hands to onFlightSelected
BookedFlights ==
    { [ outbound |-> "outbound_DL_0", return |-> r ] :
      r \in { "return_DL_0", "undefined" } }

\* a faulty variant: the end date is not asked for
MissingDetailsMutant(data) ==
    data.source = "" \/ data.destination = "" \/ data.startDate = ""

\* if (!data.source || !data.destination || !data.startDate || !data.endDate)
MissingDetails(data) ==
    \/ data.source = ""
    \/ data.destination = ""
    \/ data.startDate = ""
    \/ data.endDate = ""

\* { ...data, interests: [] }
WithNoInterests(data) ==
    [ source |-> data.source, destination |-> data.destination,
      startDate |-> data.startDate, endDate |-> data.endDate,
      budget |-> data.budget, travellers |-> data.travellers,
      interests |-> << >> ]

\* a faulty variant: back from every stage but the first
handleBackMutant(stage) ==
    IF stage = "complete" THEN "flights"
    ELSE IF stage = "flights" THEN "itinerary"
    ELSE IF stage = "itinerary" THEN "input"
    ELSE stage

\* handleBack: the stage it sets
handleBack(stage) ==
    IF stage = "flights" THEN "itinerary"
    ELSE IF stage = "itinerary" THEN "input"
    ELSE stage

\* the page is loaded: the concierge is shown, no form is mounted
IndexInit ==
    /\ StandaloneIdle
    /\ ApiIdle /\ ChatIdle /\ BookingIdle
    /\ planningMethod = "chat"
    /\ currentStage = "input"
    /\ pageTripData = Null /\ pageItinerary = Null /\ selectedFlights = Null
    /\ formId = 0
    /\ formMounted = FALSE
    /\ formData = Null
    /\ submitted = FALSE
    /\ formToast = Null
    /\ formTimers = << >>
    /\ collected = << >>
    /\ plannerStep = "unmounted"
    /\ bookingShown = "unmounted"

\* TripPlannerForm leaves the page: its state is gone, its timers are not
FormUnmounts ==
    /\ formMounted' = FALSE
    /\ formData' = Null
    /\ submitted' = FALSE
    /\ UNCHANGED formId

\* a new TripPlannerForm is mounted
FormMounts ==
    /\ formMounted' = TRUE
    /\ formId' = formId + 1
    /\ formData' = InitialFormData
    /\ submitted' = FALSE

\* stage 'input' is rendered with the planning method given
InputShown(method) ==
    IF method = "form" THEN FormMounts ELSE FormUnmounts

\* a click on one of the two planning method buttons: setPlanningMethod
setPlanningMethod ==
    /\ currentStage = "input"
    /\ \E method \in {"chat", "form"} :
        /\ method # planningMethod
        /\ method = "form" => formId < MaxForms
        /\ planningMethod' = method
        /\ InputShown(method)
    /\ UNCHANGED << currentStage, pageTripData, pageItinerary, selectedFlights,
                    formToast, formTimers, collected, plannerStep,
                    bookingShown >>
    /\ UNCHANGED << standaloneVars, apiVars, chatVars, bookingVars >>

\* the user types into a field of the form: setData({ ...data, field: value })
EditField ==
    /\ formMounted
    /\ \E k \in 1..Len(formFields) :
        \E value \in FieldValues[formFields[k]] :
            /\ value # formData[formFields[k]]
            /\ formData' = [formData EXCEPT ![formFields[k]] = value]
    /\ UNCHANGED << planningMethod, currentStage, pageTripData, pageItinerary,
                    selectedFlights, formId, formMounted, submitted,
                    formToast, formTimers, collected, plannerStep,
                    bookingShown >>
    /\ UNCHANGED << standaloneVars, apiVars, chatVars, bookingVars >>

\* handleSubmit of TripPlannerForm; the page always passes onDataCollected, so
\* an accepted submit starts a timer of 2000 ms that holds the data of the
\* render the submit happened in
handleSubmit ==
    /\ formMounted
    /\ IF MissingDetails(formData)
       THEN /\ formToast' = [ title |-> "Missing details" ]
            /\ UNCHANGED << submitted, formTimers >>
       ELSE /\ Len(collected) + Len(formTimers) < MaxCollected
            /\ submitted' = TRUE
            /\ formToast' = [ title |-> "Trip details collected!" ]
            /\ formTimers' = Append(formTimers,
                                    [ form |-> formId,
                                      data |-> WithNoInterests(formData) ])
    /\ UNCHANGED << planningMethod, currentStage, pageTripData, pageItinerary,
                    selectedFlights, formId, formMounted, formData, collected,
                    plannerStep, bookingShown >>
    /\ UNCHANGED << standaloneVars, apiVars, chatVars, bookingVars >>

\* handleTripDataCollected(data), called for the form given (0: the
\* concierge): setTripData(data); setCurrentStage('itinerary').  The stage
\* rendered next shows ItineraryPlannerAgent, which stays mounted when it was
\* shown already
handleTripDataCollected(form, data) ==
    /\ pageTripData' = data
    /\ currentStage' = "itinerary"
    /\ collected' = Append(collected, [ form |-> form, data |-> data ])
    /\ FormUnmounts
    /\ plannerStep' = IF currentStage = "itinerary" THEN plannerStep
                      ELSE "planning"
    /\ bookingShown' = "unmounted"
    /\ UNCHANGED << planningMethod, pageItinerary, selectedFlights,
                    formToast >>

\* the oldest timer of a form fires, whether or not its form is still there:
\* onDataCollected({ ...data, interests: [] })
FormTimerFires ==
    /\ formTimers # << >>
    /\ handleTripDataCollected(Head(formTimers).form, Head(formTimers).data)
    /\ formTimers' = Tail(formTimers)
    /\ UNCHANGED << standaloneVars, apiVars, chatVars, bookingVars >>

\* the user of TravelConcierge presses 'Start planning': onDataCollected
ConciergeCompletes ==
    /\ currentStage = "input"
    /\ planningMethod = "chat"
    /\ Len(collected) + Len(formTimers) < MaxCollected
    /\ \E data \in ConciergeTripData : handleTripDataCollected(0, data)
    /\ UNCHANGED formTimers
    /\ UNCHANGED << standaloneVars, apiVars, chatVars, bookingVars >>

\* ItineraryPlannerAgent has gone through its six planning stages, 9000 ms
\* after it was mounted: every timer of a form, started before that and
\* 2000 ms long, has fired by then
ItineraryPlanned ==
    /\ plannerStep = "planning"
    /\ formTimers = << >>
    /\ plannerStep' = "review"
    /\ UNCHANGED << planningMethod, currentStage, pageTripData, pageItinerary,
                    selectedFlights, formId, formMounted, formData, submitted,
                    formToast, formTimers, collected, bookingShown >>
    /\ UNCHANGED << standaloneVars, apiVars, chatVars, bookingVars >>

\* handleItineraryComplete(itinerary), from handleComplete of the planner
handleItineraryComplete ==
    /\ plannerStep = "review"
    /\ pageItinerary' = PlannedItinerary
    /\ currentStage' = "flights"
    /\ plannerStep' = "unmounted"
    /\ bookingShown' = "searching"
    /\ UNCHANGED << planningMethod, pageTripData, selectedFlights, formId,
                    formMounted, formData, submitted, formToast, formTimers,
                    collected >>
    /\ UNCHANGED << standaloneVars, apiVars, chatVars, bookingVars >>

\* the stage handleBack set is rendered
StageShown(stage) ==
    /\ currentStage' = stage
    /\ plannerStep' = IF stage = "itinerary" THEN "planning" ELSE "unmounted"
    /\ bookingShown' = IF stage = "flights" THEN "searching" ELSE "unmounted"
    /\ IF stage = "input" THEN InputShown(planningMethod)
       ELSE UNCHANGED << formId, formMounted, formData, submitted >>

\* 'Back' of the planner's review and of the flight selection: handleBack
BackPressed ==
    /\ \/ plannerStep = "review"
       \/ bookingShown = "selecting"
    /\ handleBack(currentStage) = "input" /\ planningMethod = "form"
           => formId < MaxForms
    /\ StageShown(handleBack(currentStage))
    /\ UNCHANGED << planningMethod, pageTripData, pageItinerary,
                    selectedFlights, formToast, formTimers, collected >>
    /\ UNCHANGED << standaloneVars, apiVars, chatVars, bookingVars >>

\* FlightBookingAgent as the page sees it: its search ends, flights are
\* picked, the user returns to the selection
BookingProceeds ==
    /\ \/ bookingShown = "searching" /\ bookingShown' = "selecting"
       \/ bookingShown = "selecting" /\ bookingShown' = "confirming"
       \/ bookingShown = "confirming" /\ bookingShown' = "selecting"
    /\ UNCHANGED << planningMethod, currentStage, pageTripData, pageItinerary,
                    selectedFlights, formId, formMounted, formData, submitted,
                    formToast, formTimers, collected, plannerStep >>
    /\ UNCHANGED << standaloneVars, apiVars, chatVars, bookingVars >>

\* handleFlightsSelected(flights), from confirmSelection of the booking agent
handleFlightsSelected ==
    /\ bookingShown = "confirming"
    /\ \E flights \in BookedFlights : selectedFlights' = flights
    /\ currentStage' = "complete"
    /\ bookingShown' = "unmounted"
    /\ UNCHANGED << planningMethod, pageTripData, pageItinerary, formId,
                    formMounted, formData, submitted, formToast, formTimers,
                    collected, plannerStep >>
    /\ UNCHANGED << standaloneVars, apiVars, chatVars, bookingVars >>

\* 'Plan Another Trip' of the last stage reloads the page: the page modelled
\* here ends with it
IndexNext ==
    \/ setPlanningMethod
    \/ EditField
    \/ handleSubmit
    \/ FormTimerFires
    \/ ConciergeCompletes
    \/ ItineraryPlanned
    \/ handleItineraryComplete
    \/ BackPressed
    \/ BookingProceeds
    \/ handleFlightsSelected

SpecIndex == IndexInit /\ [][IndexNext]_vars

\* a step of handleSubmit that shows a toast or starts a timer
SubmitHandled ==
    /\ formMounted /\ formMounted'
    /\ formId' = formId
    /\ formToast' # formToast \/ Len(formTimers') > Len(formTimers)

\* one of the four required fields of the form is empty
RequiredFieldEmpty ==
    \E field \in {"source", "destination", "startDate", "endDate"} :
        formData[field] = ""

\* the submit is accepted: a timer holds the fields of the form as they are
SubmitAccepted ==
    /\ submitted'
    /\ formToast' = [ title |-> "Trip details collected!" ]
    /\ formData' = formData
    /\ formTimers' = Append(formTimers,
          [ form |-> formId,
            data |-> [ source      |-> formData.source,
                       destination |-> formData.destination,
                       startDate   |-> formData.startDate,
                       endDate     |-> formData.endDate,
                       budget      |-> formData.budget,
                       travellers  |-> formData.travellers,
                       interests   |-> << >> ] ])

\* the submit is rejected: nothing but the toast changes
SubmitRejected ==
    /\ formToast' = [ title |-> "Missing details" ]
    /\ formData' = formData
    /\ formTimers' = formTimers
    /\ collected' = collected

\* C21 as stated: a submit with an empty source, destination, start date or
\* end date shows 'Missing details', leaves submitted false, leaves the form
\* data alone and starts no timer; every other submit is accepted.
C21_RequiredFieldsAsClaimed ==
    [][ SubmitHandled =>
          IF RequiredFieldEmpty
          THEN SubmitRejected /\ submitted' = FALSE
          ELSE SubmitAccepted ]_vars

\* C21: a submit with an empty source, destination, start date or end date
\* shows 'Missing details', leaves submitted as it was (false unless an earlier
\* submit of this form was accepted), leaves the form data alone and starts no
\* timer; every other submit is accepted, whatever the budget and whatever the
\* order of the two dates.
C21_RequiredFields ==
    [][ SubmitHandled =>
          IF RequiredFieldEmpty
          THEN SubmitRejected /\ submitted' = submitted
          ELSE SubmitAccepted ]_vars

\* a submit with an empty budget and an end date before the start date was
\* accepted, then the end date was cleared and the next submit rejected
C21_Witness ==
    /\ formMounted
    /\ formToast = [ title |-> "Missing details" ]
    /\ formData.endDate = "" /\ formData.source # ""
    /\ formData.destination # "" /\ formData.startDate # ""
    /\ Len(formTimers) = 1
    /\ formTimers[1].form = formId
    /\ formTimers[1].data.budget = ""
    /\ formTimers[1].data.endDate = "2025-06-05"
    /\ formTimers[1].data.startDate = "2025-06-10"

\* the first submit of a form was rejected
C21_WitnessFirstSubmit ==
    /\ formMounted
    /\ formToast = [ title |-> "Missing details" ]
    /\ ~submitted
    /\ formTimers = << >> /\ collected = << >>

\* C30: a TripPlannerForm hands its trip data to the page at most once,
\* whatever the user does while the timer of 2000 ms runs.
C30_FormDeliversAtMostOnce ==
    \A i, j \in DOMAIN collected :
        collected[i].form # 0 /\ collected[i].form = collected[j].form
            => i = j

\* what a form hands over has no interests, and is the data of a timer that
\* an accepted submit of that form started
C30_DeliversSubmittedData ==
    [][ Len(collected') > Len(collected) /\ formTimers' # formTimers =>
          /\ collected'[Len(collected')] = Head(formTimers)
          /\ Head(formTimers).data.interests = << >>
          /\ pageTripData' = Head(formTimers).data ]_vars

\* what every stage of the page needs is there
StageHasItsData ==
    /\ currentStage \in WorkflowStages
    /\ currentStage # "input" => pageTripData # Null
    /\ currentStage \in {"flights", "complete"} => pageItinerary # Null
    /\ currentStage = "complete" => selectedFlights # Null

\* the stages a step of the page may move between
StageMoves ==
    { << "input", "itinerary" >>, << "itinerary", "flights" >>,
      << "flights", "complete" >>, << "flights", "itinerary" >>,
      << "itinerary", "input" >> }

\* C26: the stage is one of input, itinerary, flights, complete; past 'input'
\* the trip data is there, in 'flights' and 'complete' the itinerary is there,
\* in 'complete' the selected flights are there; handleBack leads from
\* 'flights' to 'itinerary' and from 'itinerary' to 'input' and nowhere else;
\* 'complete' is never left.
C26_WorkflowInvariants ==
    /\ []StageHasItsData
    /\ [][ /\ handleBack("flights") = "itinerary"
           /\ handleBack("itinerary") = "input"
           /\ handleBack("input") = "input"
           /\ handleBack("complete") = "complete"
           /\ currentStage = "complete" => currentStage' = "complete"
           /\ currentStage' # currentStage
                => << currentStage, currentStage' >> \in StageMoves
           /\ << currentStage, currentStage' >>
                \in { << "flights", "itinerary" >>, << "itinerary", "input" >> }
                => /\ currentStage' = handleBack(currentStage)
                   /\ pageTripData' = pageTripData
                   /\ pageItinerary' = pageItinerary
                   /\ selectedFlights' = selectedFlights ]_vars

\* the last stage was reached after the user went back to the first stage and
\* the concierge collected the trip a second time
C26_Witness ==
    /\ currentStage = "complete"
    /\ Len(collected) = 2
    /\ collected[1].form = 0 /\ collected[2].form = 0

\* the second timer of a form handed its data over while the itinerary was
\* being planned
C26_WitnessLateTimer ==
    /\ currentStage = "itinerary"
    /\ plannerStep = "planning"
    /\ Len(collected) = 2
    /\ collected[1].form = collected[2].form /\ collected[1].form # 0
    /\ collected[1].data # collected[2].data

-----------------------------------------------------------------------------
(* FlightBookingAgent                                                         *)

\* how many times the model lets the user confirm the flights
MaxBookings == 1

\* the trips FlightBookingAgent is mounted with: a one-way trip has equal
\* dates; the budget is the text of the budget field
BookingTrips ==
    { [ startDate |-> "2025-06-10", endDate |-> e, budget |-> b,
        travellers |-> << "2" >> ] :
      e \in {"2025-06-10", "2025-06-12"},
      b \in { << >>, << "2", "0", "0", "0" >> } }

\* airlines.slice(0, 3) of generateMockFlights
bookingAirlines == << "DL", "AA", "UA" >>

\* generateMockFlights(type): id and price of the three flights;
\* Math.floor(budget * 0.3) is 3 * budget \div 10 for the budgets modelled
generateMockFlights(trip, type) ==
    [ k \in 1..Len(bookingAirlines) |->
        [ id    |-> << type, bookingAirlines[k], k - 1 >>,
          price |-> IF ~ParseInt(trip.budget).nan /\ ParseInt(trip.budget).v # 0
                    THEN (3 * ParseInt(trip.budget).v) \div 10 + (k - 1) * 50
                    ELSE 300 + (k - 1) * 100 ] ]

\* const mockResults of searchFlights
mockResults(trip) ==
    [ outbound |-> generateMockFlights(trip, "outbound"),
      return   |-> IF trip.startDate # trip.endDate
                   THEN [ flights |-> generateMockFlights(trip, "return") ]
                   ELSE Null,
      totalResults |-> 156 ]

\* FlightBookingAgent is mounted and its effect has started searchFlights
BookingInit ==
    /\ StandaloneIdle
    /\ ApiIdle /\ IndexIdle /\ ChatIdle
    /\ bookingTrip \in BookingTrips
    /\ bookingMounted = TRUE
    /\ bookingSearching = TRUE
    /\ bookingResults = Null
    /\ bookingOutbound = Null /\ bookingReturn = Null
    /\ bookingStep = "searching"
    /\ bookingSelected = << >>

\* the 3000 ms of searchFlights are over
FlightsFound ==
    /\ bookingMounted
    /\ bookingSearching
    /\ bookingResults' = mockResults(bookingTrip)
    /\ bookingStep' = "selecting"
    /\ bookingSearching' = FALSE
    /\ UNCHANGED << bookingTrip, bookingMounted, bookingOutbound,
                    bookingReturn, bookingSelected >>
    /\ UNCHANGED << standaloneVars, apiVars, indexVars, chatVars >>

\* const hasReturn of handleFlightSelection
bookingHasReturn ==
    /\ bookingResults # Null
    /\ bookingResults.return # Null
    /\ Len(bookingResults.return.flights) > 0

\* the condition of handleFlightSelection for setCurrentStep('confirming'),
\* over the selectedOutbound and selectedReturn the handler sees
AutoProceeds(outbound, return) ==
    \/ bookingHasReturn /\ outbound # Null /\ return # Null
    \/ ~bookingHasReturn /\ outbound # Null

\* the cards of the selection view
BookingCards(type) ==
    IF type = "outbound" THEN bookingResults.outbound
    ELSE IF bookingHasReturn THEN bookingResults.return.flights ELSE << >>

\* a click on a flight card of the selection view:
\* handleFlightSelection(flight, type).  The handler belongs to the render
\* before the click: selectedOutbound and selectedReturn in its condition are
\* the state before this click
BookingFlightSelection ==
    /\ bookingStep = "selecting" /\ bookingResults # Null
    /\ ~bookingSearching
    /\ \E type \in {"outbound", "return"} :
        \E k \in 1..Len(BookingCards(type)) :
            IF type = "outbound"
            THEN /\ bookingOutbound' = BookingCards(type)[k]
                 /\ UNCHANGED bookingReturn
            ELSE /\ bookingReturn' = BookingCards(type)[k]
                 /\ UNCHANGED bookingOutbound
    /\ bookingStep' = IF AutoProceeds(bookingOutbound, bookingReturn)
                      THEN "confirming" ELSE bookingStep
    /\ UNCHANGED << bookingTrip, bookingMounted, bookingSearching,
                    bookingResults, bookingSelected >>
    /\ UNCHANGED << standaloneVars, apiVars, indexVars, chatVars >>

\* 'Change Selection' of the confirmation view: setCurrentStep('selecting')
ChangeSelection ==
    /\ bookingStep = "confirming" /\ bookingOutbound # Null
    /\ ~bookingSearching
    /\ bookingStep' = "selecting"
    /\ UNCHANGED << bookingTrip, bookingMounted, bookingSearching,
                    bookingResults, bookingOutbound, bookingReturn,
                    bookingSelected >>
    /\ UNCHANGED << standaloneVars, apiVars, indexVars, chatVars >>

\* 'Confirm Flights' of the confirmation view: confirmSelection()
confirmSelection ==
    /\ bookingStep = "confirming" /\ bookingOutbound # Null
    /\ ~bookingSearching
    /\ Len(bookingSelected) < MaxBookings
    /\ bookingSelected' = Append(bookingSelected,
                                 [ outbound |-> bookingOutbound,
                                   return   |-> bookingReturn ])
    /\ UNCHANGED << bookingTrip, bookingMounted, bookingSearching,
                    bookingResults, bookingOutbound, bookingReturn,
                    bookingStep >>
    /\ UNCHANGED << standaloneVars, apiVars, indexVars, chatVars >>

BookingNext ==
    \/ FlightsFound
    \/ BookingFlightSelection
    \/ ChangeSelection
    \/ confirmSelection

SpecBooking == BookingInit /\ [][BookingNext]_vars

\* the selection the trip needs is complete
SelectionComplete(outbound, return) ==
    outbound # Null /\ (bookingHasReturn => return # Null)

\* C23: the click that completes the selection the trip needs (the outbound
\* flight of a one-way trip, both flights of a round trip) moves the step
\* from 'selecting' to 'confirming' in that same call.
C23_AutoProceedsOnCompletion ==
    [][ /\ bookingStep = "selecting"
        /\ ~SelectionComplete(bookingOutbound, bookingReturn)
        /\ SelectionComplete(bookingOutbound', bookingReturn')
        => bookingStep' = "confirming" ]_vars

\* what the code does: the step moves on the first click after the selection
\* was complete already
C23_ProceedsOneClickLate ==
    [][ bookingStep = "selecting" /\ bookingStep' = "confirming"
        => /\ SelectionComplete(bookingOutbound, bookingReturn)
           /\ SelectionComplete(bookingOutbound', bookingReturn') ]_vars

\* the confirmation view was reached for a round trip
C23_WitnessConfirming ==
    /\ bookingStep = "confirming"
    /\ bookingHasReturn
    /\ bookingReturn # Null

-----------------------------------------------------------------------------
(* TravelConcierge, the chat collector.  Texts are sequences of characters.  *)

\* how many inputs the model lets the user send
MaxInputs == 8

\* how many times the model lets the user press 'Pass to Planning Specialists'
MaxPassed == 1

\* type CollectionStep, in the order of the conversation
CollectionSteps == << "source", "destination", "dates", "budget", "travellers",
                      "interests", "confirmation", "completed" >>

\* what the user types: a text with white space around it that names two
\* interests and holds 'Yes', a plain text, and white space alone
UserTexts ==
    { << " ", "Y", "e", "s", ",", " ", "s", "e", "a", " ", "f", "o", "o", "d", " " >>,
      << "R", "o", "m", "e" >>,
      << " ", " " >> }

\* const interestKeywords of parseInterests, in the order of its entries
interestKeywords == <<
    [ interest |-> "beaches",
      keywords |-> <<
            << "b", "e", "a", "c", "h" >>,
            << "c", "o", "a", "s", "t", "a", "l" >>,
            << "o", "c", "e", "a", "n" >>,
            << "s", "e", "a" >>,
            << "w", "a", "t", "e", "r" >>,
            << "s", "w", "i", "m", "m", "i", "n", "g" >>,
            << "s", "a", "n", "d" >> >> ],
    [ interest |-> "adventure",
      keywords |-> <<
            << "a", "d", "v", "e", "n", "t", "u", "r", "e" >>,
            << "t", "h", "r", "i", "l", "l" >>,
            << "a", "d", "r", "e", "n", "a", "l", "i", "n", "e" >>,
            << "e", "x", "t", "r", "e", "m", "e" >>,
            << "h", "i", "k", "i", "n", "g" >>,
            << "c", "l", "i", "m", "b", "i", "n", "g" >>,
            << "s", "p", "o", "r", "t", "s" >> >> ],
    [ interest |-> "culture",
      keywords |-> <<
            << "c", "u", "l", "t", "u", "r", "e" >>,
            << "c", "u", "l", "t", "u", "r", "a", "l" >>,
            << "h", "i", "s", "t", "o", "r", "y" >>,
            << "h", "i", "s", "t", "o", "r", "i", "c", "a", "l" >>,
            << "m", "u", "s", "e", "u", "m" >>,
            << "h", "e", "r", "i", "t", "a", "g", "e" >>,
            << "t", "r", "a", "d", "i", "t", "i", "o", "n", "a", "l" >> >> ],
    [ interest |-> "food",
      keywords |-> <<
            << "f", "o", "o", "d" >>,
            << "c", "u", "i", "s", "i", "n", "e" >>,
            << "c", "u", "l", "i", "n", "a", "r", "y" >>,
            << "r", "e", "s", "t", "a", "u", "r", "a", "n", "t" >>,
            << "d", "i", "n", "i", "n", "g" >>,
            << "e", "a", "t", "i", "n", "g" >>,
            << "l", "o", "c", "a", "l", " ", "f", "o", "o", "d" >> >> ],
    [ interest |-> "shopping",
      keywords |-> <<
            << "s", "h", "o", "p", "p", "i", "n", "g" >>,
            << "s", "h", "o", "p" >>,
            << "m", "a", "r", "k", "e", "t" >>,
            << "b", "u", "y", "i", "n", "g" >>,
            << "s", "o", "u", "v", "e", "n", "i", "r", "s" >>,
            << "c", "r", "a", "f", "t", "s" >>,
            << "r", "e", "t", "a", "i", "l" >> >> ],
    [ interest |-> "nightlife",
      keywords |-> <<
            << "n", "i", "g", "h", "t", "l", "i", "f", "e" >>,
            << "n", "i", "g", "h", "t" >>,
            << "p", "a", "r", "t", "y" >>,
            << "b", "a", "r" >>,
            << "c", "l", "u", "b" >>,
            << "e", "n", "t", "e", "r", "t", "a", "i", "n", "m", "e", "n", "t" >>,
            << "m", "u", "s", "i", "c" >> >> ],
    [ interest |-> "nature",
      keywords |-> <<
            << "n", "a", "t", "u", "r", "e" >>,
            << "o", "u", "t", "d", "o", "o", "r" >>,
            << "n", "a", "t", "u", "r", "a", "l" >>,
            << "w", "i", "l", "d", "l", "i", "f", "e" >>,
            << "p", "a", "r", "k" >>,
            << "f", "o", "r", "e", "s", "t" >>,
            << "m", "o", "u", "n", "t", "a", "i", "n", "s" >> >> ] >>

RECURSIVE TrimStart(_)
\* String.prototype.trimStart, for the white space modelled
TrimStart(s) ==
    IF s # << >> /\ Head(s) = " " THEN TrimStart(Tail(s)) ELSE s

RECURSIVE TrimEnd(_)
\* String.prototype.trimEnd, for the white space modelled
TrimEnd(s) ==
    IF s # << >> /\ s[Len(s)] = " " THEN TrimEnd(SubSeq(s, 1, Len(s) - 1))
    ELSE s

\* a faulty variant: the text is taken as typed
TrimMutant(s) == s

\* String.prototype.trim
Trim(s) == TrimEnd(TrimStart(s))

\* keywords.some(keyword => lowerInput.includes(keyword))
SomeKeyword(lowerInput, keywords) ==
    \E j \in 1..Len(keywords) : Includes(lowerInput, keywords[j])

RECURSIVE foundInterests(_, _)
\* the forEach of parseInterests, from the entry i on
foundInterests(lowerInput, i) ==
    IF i > Len(interestKeywords) THEN << >>
    ELSE (IF SomeKeyword(lowerInput, interestKeywords[i].keywords)
          THEN << interestKeywords[i].interest >> ELSE << >>)
         \o foundInterests(lowerInput, i + 1)

\* parseInterests(input)
parseInterests(input) == foundInterests(ToLowerCase(input), 1)

\* a faulty variant: the words are looked for as typed
ConfirmsMutant(userInput) ==
    \/ Includes(userInput, << "y", "e", "s" >>)
    \/ Includes(userInput, << "c", "o", "n", "f", "i", "r", "m" >>)
    \/ Includes(userInput, << "c", "o", "r", "r", "e", "c", "t" >>)

\* the condition of case 'confirmation'
Confirms(userInput) ==
    \/ Includes(ToLowerCase(userInput), << "y", "e", "s" >>)
    \/ Includes(ToLowerCase(userInput), << "c", "o", "n", "f", "i", "r", "m" >>)
    \/ Includes(ToLowerCase(userInput), << "c", "o", "r", "r", "e", "c", "t" >>)

\* useState<TripData>({...}) of TravelConcierge
EmptyTripData ==
    [ source |-> << >>, destination |-> << >>, startDate |-> << >>,
      endDate |-> << >>, budget |-> << >>, travellers |-> << >>,
      interests |-> << >> ]

\* a faulty variant: the first date moves on to the budget
nextStepMutant(step, data, userInput) ==
    IF step = "source" THEN "destination"
    ELSE IF step = "destination" THEN "dates"
    ELSE IF step = "dates" THEN "budget"
    ELSE IF step = "budget" THEN "travellers"
    ELSE IF step = "travellers" THEN "interests"
    ELSE IF step = "interests" THEN "confirmation"
    ELSE IF step = "confirmation" /\ Confirms(userInput) THEN "completed"
    ELSE step

\* nextStep after the switch of processUserInput
nextStep(step, data, userInput) ==
    IF step = "source" THEN "destination"
    ELSE IF step = "destination" THEN "dates"
    ELSE IF step = "dates"
         THEN (IF data.startDate = << >> THEN step ELSE "budget")
    ELSE IF step = "budget" THEN "travellers"
    ELSE IF step = "travellers" THEN "interests"
    ELSE IF step = "interests" THEN "confirmation"
    ELSE IF step = "confirmation" /\ Confirms(userInput) THEN "completed"
    ELSE step

\* updatedData after the switch of processUserInput
updatedData(step, data, userInput) ==
    IF step = "source" THEN [data EXCEPT !.source = userInput]
    ELSE IF step = "destination" THEN [data EXCEPT !.destination = userInput]
    ELSE IF step = "dates"
         THEN (IF data.startDate = << >>
               THEN [data EXCEPT !.startDate = userInput]
               ELSE [data EXCEPT !.endDate = userInput])
    ELSE IF step = "budget" THEN [data EXCEPT !.budget = userInput]
    ELSE IF step = "travellers" THEN [data EXCEPT !.travellers = userInput]
    ELSE IF step = "interests"
         THEN [data EXCEPT !.interests = parseInterests(userInput)]
    ELSE data

\* the response of processUserInput: which text it is and what it is built
\* from (getResponseForStep picks one of three texts at random, not kept here)
response(step, data, userInput) ==
    IF step = "dates" /\ data.startDate = << >>
    THEN [ kind |-> "end date?", about |-> userInput ]
    ELSE IF nextStep(step, data, userInput) = "confirmation"
    THEN [ kind |-> "summary", data |-> updatedData(step, data, userInput) ]
    ELSE IF nextStep(step, data, userInput) = "completed"
    THEN [ kind |-> "confirmed" ]
    ELSE [ kind |-> "reply", step |-> step ]

\* addMessage(role, content): setMessages(prev => [...prev, newMessage])
addMessage(prev, role, content) ==
    Append(prev, [ role |-> role, content |-> content ])

\* TravelConcierge is mounted: the greeting is the only message
ChatInit ==
    /\ StandaloneIdle
    /\ ApiIdle /\ IndexIdle /\ BookingIdle
    /\ messages = << [ role |-> "assistant", content |-> [ kind |-> "greeting" ] ] >>
    /\ chatInput = << >>
    /\ isLoading = FALSE
    /\ chatStep = "source"
    /\ chatTripData = EmptyTripData
    /\ processing = Null
    /\ replyTimers = << >>
    /\ inputsSent = 0
    /\ chatCollected = << >>

\* the user types into the input box, which is there until the last step and
\* disabled while isLoading: setInput(e.target.value)
TypeInput ==
    /\ chatStep \notin {"unmounted", "completed"}
    /\ ~isLoading
    /\ \E text \in UserTexts \cup { << >> } :
        /\ text # chatInput
        /\ chatInput' = text
    /\ UNCHANGED << messages, isLoading, chatStep, chatTripData, processing,
                    replyTimers, inputsSent, chatCollected >>
    /\ UNCHANGED << standaloneVars, apiVars, indexVars, bookingVars >>

\* handleSubmit of the chat, up to the await of processUserInput, which keeps
\* currentStep and tripData of the render the submit happened in
ChatSubmit ==
    /\ chatStep \notin {"unmounted", "completed"}
    /\ inputsSent < MaxInputs
    /\ IF Trim(chatInput) = << >> \/ isLoading
       THEN UNCHANGED << messages, chatInput, isLoading, processing,
                         inputsSent >>
       ELSE /\ messages' = addMessage(messages, "user", Trim(chatInput))
            /\ chatInput' = << >>
            /\ isLoading' = TRUE
            /\ processing' = [ userInput   |-> Trim(chatInput),
                               currentStep |-> chatStep,
                               tripData    |-> chatTripData ]
            /\ inputsSent' = inputsSent + 1
    /\ UNCHANGED << chatStep, chatTripData, replyTimers, chatCollected >>
    /\ UNCHANGED << standaloneVars, apiVars, indexVars, bookingVars >>

\* the 1200 ms of processUserInput are over: the rest of its body.  A reply
\* timer of 500 ms started before this input was sent has fired by now
InputProcessed ==
    /\ processing # Null
    /\ replyTimers = << >>
    /\ chatTripData' = updatedData(processing.currentStep, processing.tripData,
                                   processing.userInput)
    /\ chatStep' = nextStep(processing.currentStep, processing.tripData,
                            processing.userInput)
    /\ replyTimers' = Append(replyTimers,
                             response(processing.currentStep,
                                      processing.tripData,
                                      processing.userInput))
    /\ isLoading' = FALSE
    /\ processing' = Null
    /\ UNCHANGED << messages, chatInput, inputsSent, chatCollected >>
    /\ UNCHANGED << standaloneVars, apiVars, indexVars, bookingVars >>

\* the 500 ms timer of a reply fires: addMessage('assistant', response)
ReplyTimerFires ==
    /\ replyTimers # << >>
    /\ messages' = addMessage(messages, "assistant", Head(replyTimers))
    /\ replyTimers' = Tail(replyTimers)
    /\ UNCHANGED << chatInput, isLoading, chatStep, chatTripData, processing,
                    inputsSent, chatCollected >>
    /\ UNCHANGED << standaloneVars, apiVars, indexVars, bookingVars >>

\* handleComplete of the chat, the button of the last step:
\* onDataCollected(tripData)
PassToSpecialists ==
    /\ chatStep = "completed"
    /\ Len(chatCollected) < MaxPassed
    /\ chatCollected' = Append(chatCollected, chatTripData)
    /\ UNCHANGED << messages, chatInput, isLoading, chatStep, chatTripData,
                    processing, replyTimers, inputsSent >>
    /\ UNCHANGED << standaloneVars, apiVars, indexVars, bookingVars >>

ChatNext ==
    \/ TypeInput
    \/ ChatSubmit
    \/ InputProcessed
    \/ ReplyTimerFires
    \/ PassToSpecialists

SpecChat == ChatInit /\ [][ChatNext]_vars

\* an input has been processed in this step
InputHandled == processing # Null /\ processing' = Null

\* the step that follows each step of the conversation
FollowingStep ==
    [ source |-> "destination", destination |-> "dates", dates |-> "budget",
      budget |-> "travellers", travellers |-> "interests",
      interests |-> "confirmation", confirmation |-> "completed" ]

\* the fields of the trip data other than the one given are as they were
OnlyFieldStored(field) ==
    \A other \in DOMAIN chatTripData :
        other # field => chatTripData'[other] = chatTripData[other]

\* C24: currentStep moves only along source, destination, dates, budget,
\* travellers, interests, confirmation, completed, one step at a time; the
\* first input of 'dates' is stored as startDate and keeps the step, the
\* second is stored as endDate and leads to 'budget'; every other step up to
\* 'travellers' stores its input in its own field and in no other, and
\* 'interests' stores only the interests.
C24_FixedSequence ==
    [][ /\ chatStep' # chatStep
            => /\ InputHandled
               /\ chatStep # "completed"
               /\ chatStep' = FollowingStep[chatStep]
        /\ ~InputHandled => chatTripData' = chatTripData
        /\ InputHandled /\ chatStep = "dates"
            => IF chatTripData.startDate = << >>
               THEN /\ chatStep' = "dates"
                    /\ chatTripData'.startDate = processing.userInput
                    /\ OnlyFieldStored("startDate")
               ELSE /\ chatStep' = "budget"
                    /\ chatTripData'.endDate = processing.userInput
                    /\ OnlyFieldStored("endDate")
        /\ InputHandled
           /\ chatStep \in {"source", "destination", "budget", "travellers"}
            => /\ chatStep' = FollowingStep[chatStep]
               /\ chatTripData'[chatStep] = processing.userInput
               /\ OnlyFieldStored(chatStep)
        /\ InputHandled /\ chatStep = "interests"
            => /\ chatStep' = "confirmation"
               /\ OnlyFieldStored("interests") ]_vars

\* the conversation went through every step, and both dates were stored
C24_Witness ==
    /\ chatStep = "completed"
    /\ chatTripData.startDate # << >>
    /\ chatTripData.endDate # << >>
    /\ chatTripData.startDate # chatTripData.endDate
    /\ inputsSent = 8

\* C25: at 'confirmation' an input leads to 'completed' exactly when, in
\* lower case, it contains 'yes', 'confirm' or 'correct'; no input of that
\* step changes the trip data; onDataCollected is called only at 'completed'
\* and is given the trip data collected.
C25_ConfirmationGate ==
    [][ /\ InputHandled /\ chatStep = "confirmation"
            => /\ chatTripData' = chatTripData
               /\ chatStep' = "completed"
                    <=> \/ Includes(ToLowerCase(processing.userInput),
                                    << "y", "e", "s" >>)
                        \/ Includes(ToLowerCase(processing.userInput),
                                    << "c", "o", "n", "f", "i", "r", "m" >>)
                        \/ Includes(ToLowerCase(processing.userInput),
                                    << "c", "o", "r", "r", "e", "c", "t" >>)
               /\ chatStep' \in {"confirmation", "completed"}
        /\ chatCollected' # chatCollected
            => /\ chatStep = "completed"
               /\ chatCollected' = Append(chatCollected, chatTripData) ]_vars

\* an input without the three words was sent at 'confirmation' and left the
\* step and the data alone
C25_WitnessRejected ==
    /\ chatStep = "confirmation"
    /\ processing = Null
    /\ inputsSent = 8
    /\ chatTripData.interests = << "beaches", "food" >>

\* 'Yes' in capitals led to 'completed', and the data was handed over
C25_Witness ==
    /\ chatStep = "completed"
    /\ chatCollected = << chatTripData >>
    /\ chatTripData.interests = << "beaches", "food" >>

\* the messages of the user, in the order they were sent
UserMessages == SelectSeq(messages, LAMBDA m : m.role = "user")

\* a text that is not empty and has no white space at either end
TrimmedText(s) == s # << >> /\ Head(s) # " " /\ s[Len(s)] # " "

\* C28: at 'completed' source, destination, startDate, endDate, budget and
\* travellers are non-empty, and each is the trimmed input of its own step:
\* the first six messages of the user, in this order.
C28_CompleteData ==
    chatStep = "completed" =>
        /\ Len(UserMessages) >= 8
        /\ chatTripData.source = UserMessages[1].content
        /\ chatTripData.destination = UserMessages[2].content
        /\ chatTripData.startDate = UserMessages[3].content
        /\ chatTripData.endDate = UserMessages[4].content
        /\ chatTripData.budget = UserMessages[5].content
        /\ chatTripData.travellers = UserMessages[6].content
        /\ \A field \in {"source", "destination", "startDate", "endDate",
                         "budget", "travellers"} :
               TrimmedText(chatTripData[field])
        /\ \A k \in DOMAIN chatCollected :
               \A field \in {"source", "destination", "startDate", "endDate",
                             "budget", "travellers"} :
                   TrimmedText(chatCollected[k][field])

\* the data was handed over with no interests, after inputs typed with
\* white space around them
C28_Witness ==
    /\ chatStep = "completed"
    /\ Len(chatCollected) = 1
    /\ chatCollected[1].interests = << >>
    /\ chatCollected[1].source = << "Y", "e", "s", ",", " ", "s", "e", "a", " ",
                                    "f", "o", "o", "d" >>
    /\ chatCollected[1].budget = << "R", "o", "m", "e" >>

\* C27: the transcript alternates assistant, user, assistant, user, ...: the
\* reply to an input is in the transcript before the next message of the user.
C27_TranscriptAlternates ==
    \A i \in DOMAIN messages :
        messages[i].role = IF i % 2 = 1 THEN "assistant" ELSE "user"

\* what holds instead: the replies come in the order of the inputs, and no
\* more than one reply is outstanding
C27_RepliesInOrder ==
    /\ Len(replyTimers) <= 1
    /\ Len(SelectSeq(messages, LAMBDA m : m.role = "assistant"))
         + Len(replyTimers) + (IF processing # Null THEN 1 ELSE 0)
       = Len(UserMessages) + 1

=============================================================================
